---- MODULE Spec2Model ----
(***************************************************************************)
(* Dubai Housing Affordability Explorer: the affordability calculator      *)
(* (modules/affordability_calculator.py), the neighbourhood comparison     *)
(* tool (modules/comparison_tool.py), the map (modules/                    *)
(* map_visualization.py) and the rental trends (modules/trend_analysis.py),*)
(* driven by the page dispatch of app.py.  One step of the model is one    *)
(* run of the app script: a widget changes, the script runs top to bottom  *)
(* and the selected page function computes what it displays.  Spec is the  *)
(* app within the ttl of a dataset that was loaded; SpecLoad adds the      *)
(* expiry of the cached dataset and the failure of the load.               *)
(*                                                                         *)
(* Numbers.  Python computes in binary floating point.  The model keeps    *)
(* every value that the code obtains by +, -, *, / from integers as an     *)
(* exact rational <<numerator, denominator>>, and every value that         *)
(* involves a power (1 + r) ** n as a decimal fixed-point approximation    *)
(* (Scale = 10^8 for pure numbers, fils = 1/100 AED for money).  Claims    *)
(* on such values are stated up to a tolerance far above the error of      *)
(* either arithmetic.                                                      *)
(***************************************************************************)
EXTENDS Integers, Sequences, FiniteSets, TLC

VARIABLES
  data,           \* the rows of the DataFrame that the script's run received
  page,           \* the sidebar radio's selection
  session_state,  \* st.session_state: the set of keys the script has set
  calc_in,        \* the calculator form's values as the script sees them
  calc_out,       \* what show_affordability_calculator computed, or NoResults
  cmp_in,         \* the comparison page's widget values
  cmp_out,        \* what show_comparison_tool computed, or NotShown
  map_in,         \* the map page's widget values
  map_out,        \* what show_map_visualization computed, or NotShown
  trend_in,       \* the trends page's widget values
  trend_out,      \* what show_trend_analysis computed, or NotShown
  cache           \* st.cache_data's entry for load_dubai_housing_data

vars ==
  <<data, page, session_state, calc_in, calc_out, cmp_in, cmp_out,
    map_in, map_out, trend_in, trend_out, cache>>

-----------------------------------------------------------------------------
(* Exact rationals: <<n, d>> with d > 0 and gcd(n, d) = 1.                 *)

Abs(a) == IF a < 0 THEN -a ELSE a

Gcd[a \in Nat, b \in Nat] == IF b = 0 THEN a ELSE Gcd[b, a % b]

Rat(n, d) ==
  LET s == IF d < 0 THEN -1 ELSE 1
      g == Gcd[Abs(n), Abs(d)]
  IN <<(s * n) \div g, (s * d) \div g>>

I(k) == <<k, 1>>
RAdd(a, b) == Rat(a[1] * b[2] + b[1] * a[2], a[2] * b[2])
RSub(a, b) == Rat(a[1] * b[2] - b[1] * a[2], a[2] * b[2])
RMul(a, b) == Rat(a[1] * b[1], a[2] * b[2])
RDiv(a, b) == Rat(a[1] * b[2], a[2] * b[1])
RLe(a, b) == a[1] * b[2] <= b[1] * a[2]
RLt(a, b) == a[1] * b[2] < b[1] * a[2]

\* .round(0).astype(int): to the nearest integer, halves to the even one
RoundHalfEven(x) ==
  LET q == x[1] \div x[2]
      twice == 2 * (x[1] % x[2])
  IN IF twice < x[2] THEN q
     ELSE IF twice > x[2] THEN q + 1
     ELSE IF q % 2 = 0 THEN q ELSE q + 1

-----------------------------------------------------------------------------
(* Fixed point, in decimal limbs of Base = 10^4 so that no intermediate     *)
(* value leaves the 32-bit integers.  The helpers are functions, so that   *)
(* each argument is evaluated once.                                        *)

Base == 10 ^ 4
Scale == Base * Base

\* floor(a * b / d) for b, d up to about 10^4 (a: any natural number)
MulDivS[a \in Nat, b \in Nat, d \in Nat] ==
  (((a \div Base) * b) \div d) * Base
    + ((((a \div Base) * b) % d) * Base + (a % Base) * b) \div d

\* floor(x * y / Scale) for x, y < Scale
FracMul[x \in Nat, y \in Nat] ==
  (x \div Base) * (y \div Base)
    + ((x \div Base) * (y % Base) + (x % Base) * (y \div Base)) \div Base
    + ((((x \div Base) * (y % Base) + (x % Base) * (y \div Base)) % Base) * Base
         + (x % Base) * (y % Base)) \div Scale

\* floor(x * y / Scale): the product of two fixed-point numbers
FxMul[x \in Nat, y \in Nat] ==
  (x \div Scale) * (y \div Scale) * Scale
    + (x \div Scale) * (y % Scale) + (x % Scale) * (y \div Scale)
    + FracMul[x % Scale, y % Scale]

FxSqr[x \in Nat] == FxMul[x, x]

\* x ** k for a fixed-point x and an integer k >= 0
FxPow[x \in Nat, k \in Nat] ==
  IF k = 0 THEN Scale
  ELSE IF k % 2 = 0 THEN FxSqr[FxPow[x, k \div 2]]
  ELSE FxMul[FxSqr[FxPow[x, k \div 2]], x]

\* floor(a * b / d) in general, bit by bit; <<q, x>> stands for q * d + x
AddMod[q \in Nat, x \in Nat, y \in Nat, d \in Nat] ==
  IF x >= d - y THEN <<q + 1, x - (d - y)>> ELSE <<q, x + y>>

Twice[h \in Nat \X Nat, d \in Nat] == AddMod[2 * h[1], h[2], h[2], d]

AddOdd[t \in Nat \X Nat, a \in Nat, d \in Nat] == AddMod[t[1] + (a \div d), t[2], a % d, d]

MulDivRec[a \in Nat, b \in Nat, d \in Nat] ==
  IF b = 0 THEN <<0, 0>>
  ELSE IF b % 2 = 0 THEN Twice[MulDivRec[a, b \div 2, d], d]
  ELSE AddOdd[Twice[MulDivRec[a, b \div 2, d], d], a, d]

MulDiv(a, b, d) == MulDivRec[a, b, d][1]

\* a * b / d rounded toward zero, for a of either sign
SMulDiv(a, b, d) == IF a < 0 THEN -MulDiv(-a, b, d) ELSE MulDiv(a, b, d)

SMulDivS(a, b, d) == IF a < 0 THEN -MulDivS[-a, b, d] ELSE MulDivS[a, b, d]

-----------------------------------------------------------------------------
(* show_affordability_calculator: the arithmetic of lines 116-139 and the  *)
(* mortgage payment of lines 225-227.  mortgage_interest is the slider's   *)
(* value in tenths of a percent (the slider moves in steps of 0.1).        *)

\* an exact amount in AED, in fils (truncated)
Fils(x) == SMulDivS(x[1] * 100, 1, x[2])

\* variant: the additional monthly income is left out
MonthlyIncome_NoAdditional(yearly_income, additional_income) ==
  RDiv(I(yearly_income), I(12))

MonthlyIncome(yearly_income, additional_income) ==
  RAdd(RDiv(I(yearly_income), I(12)), I(additional_income))

AffordableRent(monthly_income, rent_income_ratio) ==
  RMul(monthly_income, RDiv(I(rent_income_ratio), I(100)))

AffordableYearlyRent(affordable_rent) == RMul(affordable_rent, I(12))

MonthlyPaymentCapacity(affordable_rent, debt_payments) ==
  RSub(affordable_rent, I(debt_payments))

MonthlyRate(mortgage_interest) ==
  RDiv(RDiv(Rat(mortgage_interest, 10), I(100)), I(12))

\* variant: one payment a year
NumPayments_Yearly(mortgage_term) == mortgage_term

NumPayments(mortgage_term) == mortgage_term * 12

\* (1 + r) ** -n and (1 + r) ** n, to Scale
NegPow(r, n) == FxPow[MulDivS[Scale, r[2], r[1] + r[2]], n]
PosPow(r, n) == FxPow[MulDivS[Scale, r[1] + r[2], r[2]], n]

\* (1 - (1 + r) ** -n) / r, to 10^6
AnnuityFactor(r, n) == MulDivS[Scale - NegPow(r, n), r[2], r[1] * 100]

\* variant: the payments are not discounted
MaxMortgage_Undiscounted(monthly_payment_capacity, r, n) ==
  Fils(RMul(monthly_payment_capacity, I(n)))

\* max_mortgage, in fils
MaxMortgage(monthly_payment_capacity, r, n) ==
  IF RLt(I(0), r)
    THEN IF monthly_payment_capacity[1] < 0
           THEN -MulDivS[AnnuityFactor(r, n), -monthly_payment_capacity[1],
                         monthly_payment_capacity[2] * Base]
           ELSE MulDivS[AnnuityFactor(r, n), monthly_payment_capacity[1],
                        monthly_payment_capacity[2] * Base]
    ELSE Fils(RMul(monthly_payment_capacity, I(n)))

\* variant: the down payment is left out
MaxPurchasePrice_NoDownPayment(max_mortgage, down_payment) == max_mortgage

\* max_purchase_price, in fils
MaxPurchasePrice(max_mortgage, down_payment) == max_mortgage + down_payment * 100

\* max_mortgage * (r * (1 + r) ** n) / ((1 + r) ** n - 1) for (1 + r) ** n = qn
Payment[max_mortgage \in Int, qn \in Nat, r \in Nat \X Nat] ==
  SMulDiv(max_mortgage, MulDivS[qn, r[1], r[2]], qn - Scale)

\* variant: the principal spread evenly, no interest
MonthlyMortgage_NoInterest(max_mortgage, r, n) ==
  IF max_mortgage < 0 THEN -((-max_mortgage) \div n) ELSE max_mortgage \div n

\* monthly_mortgage, in fils
MonthlyMortgage(max_mortgage, r, n) ==
  IF RLt(I(0), r)
    THEN Payment[max_mortgage, PosPow(r, n), r]
    ELSE IF max_mortgage < 0 THEN -((-max_mortgage) \div n) ELSE max_mortgage \div n

YearlyMortgage(monthly_mortgage) == monthly_mortgage * 12

\* lines 218-238: the projection of the "Rent vs. Buy Comparison", amounts in
\* fils.  rent_growth and appreciation are the yearly rates written into
\* lines 222 and 235.
projection_years == 10
rent_growth == Rat(5, 100)
appreciation == Rat(3, 100)

\* line 219: years = list(range(1, 11))
ProjectionYears == 1..projection_years

\* (1 + rate) ** i, to Scale
GrowthPow(rate, i) == FxPow[MulDivS[Scale, rate[1] + rate[2], rate[2]], i]

\* (1 + rate) ** i for i in range(len(years))
GrowthPowers(rate) == [i \in 0..(projection_years - 1) |-> GrowthPow(rate, i)]

rent_growth_powers == GrowthPowers(rent_growth)
appreciation_powers == GrowthPowers(appreciation)

\* [amount * power for each of the powers]
Growing(amount, powers) ==
  [year \in ProjectionYears |->
     IF amount < 0 THEN -FxMul[-amount, powers[year - 1]]
     ELSE FxMul[amount, powers[year - 1]]]

\* variant: the costs are not summed
CumSum_NotSummed(costs) == costs

\* np.cumsum
CumSum(costs) ==
  LET upto[year \in 0..Len(costs)] ==
        IF year = 0 THEN 0 ELSE upto[year - 1] + costs[year]
  IN [year \in 1..Len(costs) |-> upto[year]]

\* variant: the rent does not grow
RentCosts_Flat(affordable_yearly_rent) ==
  [year \in ProjectionYears |-> Fils(affordable_yearly_rent)]

\* line 222
RentCosts(affordable_yearly_rent) ==
  Growing(Fils(affordable_yearly_rent), rent_growth_powers)

\* variant: the down payment is left out of the mortgage costs
CumulativeMortgage_NoDownPayment(yearly_mortgage, down_payment) ==
  CumSum([year \in ProjectionYears |-> yearly_mortgage])

\* lines 227-231
CumulativeMortgage(yearly_mortgage, down_payment) ==
  LET cumulative_mortgage == CumSum([year \in ProjectionYears |-> yearly_mortgage])
  IN [year \in ProjectionYears |-> cumulative_mortgage[year] + down_payment * 100]

\* line 235
PropertyValues(max_purchase_price) == Growing(max_purchase_price, appreciation_powers)

\* variant: the last year is left out
NetBuyingCost_LastYearMissing(cumulative_mortgage, property_values, max_purchase_price) ==
  [year \in 1..(projection_years - 1) |->
     cumulative_mortgage[year] - property_values[year] + max_purchase_price]

\* line 238
NetBuyingCost(cumulative_mortgage, property_values, max_purchase_price) ==
  [year \in ProjectionYears |->
     cumulative_mortgage[year] - property_values[year] + max_purchase_price]

NoResults == [shown |-> FALSE]

\* lines 116-139 and 225-227: everything the page computes from the form
Results(in) ==
  LET monthly_income == MonthlyIncome(in.yearly_income, in.additional_income)
      affordable_rent == AffordableRent(monthly_income, in.rent_income_ratio)
      monthly_payment_capacity == MonthlyPaymentCapacity(affordable_rent, in.debt_payments)
      r == MonthlyRate(in.mortgage_interest)
      n == NumPayments(in.mortgage_term)
      max_mortgage == MaxMortgage(monthly_payment_capacity, r, n)
      monthly_mortgage == MonthlyMortgage(max_mortgage, r, n)
      max_purchase_price == MaxPurchasePrice(max_mortgage, in.down_payment)
      cumulative_mortgage == CumulativeMortgage(YearlyMortgage(monthly_mortgage),
                                                in.down_payment)
      property_values == PropertyValues(max_purchase_price)
  IN [shown |-> TRUE,
      monthly_income |-> monthly_income,
      affordable_rent |-> affordable_rent,
      affordable_yearly_rent |-> AffordableYearlyRent(affordable_rent),
      monthly_payment_capacity |-> monthly_payment_capacity,
      r |-> r,
      n |-> n,
      max_mortgage |-> max_mortgage,
      max_purchase_price |-> max_purchase_price,
      monthly_mortgage |-> monthly_mortgage,
      yearly_mortgage |-> YearlyMortgage(monthly_mortgage),
      cumulative_rent |-> CumSum(RentCosts(AffordableYearlyRent(affordable_rent))),
      cumulative_mortgage |-> cumulative_mortgage,
      property_values |-> property_values,
      net_buying_cost |-> NetBuyingCost(cumulative_mortgage, property_values,
                                        max_purchase_price)]

\* line 112: the results are computed when the form was submitted in this run,
\* or when an earlier run has set show_results
ShowsResults(submitted, ss) == submitted \/ "show_results" \in ss

\* show_affordability_calculator: st.session_state after the run (line 114),
\* and what the run computed
SessionStateAfter_FlagNotSet(submitted, ss) == ss

SessionStateAfter(submitted, ss) ==
  IF ShowsResults(submitted, ss) THEN ss \cup {"show_results"} ELSE ss

\* variant: without a submission in this run the down payment is left out
ShowAffordabilityCalculator_Stale(submitted, ss, in) ==
  IF submitted THEN Results(in)
  ELSE IF "show_results" \in ss THEN Results([in EXCEPT !.down_payment = 0])
  ELSE NoResults

ShowAffordabilityCalculator(submitted, ss, in) ==
  IF ShowsResults(submitted, ss) THEN Results(in) ELSE NoResults

\* the form's widgets: their default values (value=...) and the values submitted
yearly_income_default == 200000
additional_income_default == 0
down_payment_default == 50000
debt_payments_default == 2000
other_expenses_default == 5000
rent_income_ratio_default == 30
mortgage_interest_default == 40
mortgage_term_default == 25

CalcDefaults ==
  [yearly_income |-> yearly_income_default,
   additional_income |-> additional_income_default,
   down_payment |-> down_payment_default,
   debt_payments |-> debt_payments_default,
   other_expenses |-> other_expenses_default,
   rent_income_ratio |-> rent_income_ratio_default,
   mortgage_interest |-> mortgage_interest_default,
   mortgage_term |-> mortgage_term_default]

\* one further admissible value of each widget
CalcAlternatives ==
  [yearly_income |-> 0,
   additional_income |-> 500,
   down_payment |-> 0,
   debt_payments |-> 0,
   other_expenses |-> 0,
   rent_income_ratio |-> 40,
   mortgage_interest |-> 100,
   mortgage_term |-> 5]

Min(a, b) == IF a < b THEN a ELSE b
Max(a, b) == IF a > b THEN a ELSE b

\* a value that the user tries to give each widget beyond its range: a number
\* typed below min_value, a slider dragged past its end
CalcAttempts ==
  [yearly_income |-> -10000,
   additional_income |-> -500,
   down_payment |-> -10000,
   debt_payments |-> -500,
   other_expenses |-> -500,
   rent_income_ratio |-> 50,
   mortgage_interest |-> 120,
   mortgage_term |-> 0]

\* min_value of the number inputs; min_value and max_value of the sliders
WidgetRanges ==
  [yearly_income |-> <<0>>,
   additional_income |-> <<0>>,
   down_payment |-> <<0>>,
   debt_payments |-> <<0>>,
   other_expenses |-> <<0>>,
   rent_income_ratio |-> <<20, 40>>,
   mortgage_interest |-> <<10, 100>>,
   mortgage_term |-> <<5, 30>>]

\* variant: the number input takes whatever is typed
NumberInput_Unchecked(min_value, value, typed) == typed

\* st.number_input(min_value=..., value=...): a number below min_value is not
\* accepted, and the widget keeps its value
NumberInput(min_value, value, typed) == IF typed < min_value THEN value ELSE typed

\* st.slider(min_value=..., max_value=...): the handle stops at the ends
Slider(min_value, max_value, moved) == Max(min_value, Min(max_value, moved))

\* the value the script gets from widget f when the user gives it x
WidgetValue(f, x) ==
  IF Len(WidgetRanges[f]) = 1
    THEN NumberInput(WidgetRanges[f][1], CalcDefaults[f], x)
    ELSE Slider(WidgetRanges[f][1], WidgetRanges[f][2], x)

\* the forms submitted: at most MaxChanged widgets moved off their defaults
MaxChanged == 2

Choice(f) == {CalcDefaults[f], CalcAlternatives[f], CalcAttempts[f]}

CalcInputs ==
  { [f \in DOMAIN CalcDefaults |-> WidgetValue(f, given[f])] :
      given \in
        { in \in [yearly_income : Choice("yearly_income"),
                   additional_income : Choice("additional_income"),
                   down_payment : Choice("down_payment"),
                   debt_payments : Choice("debt_payments"),
                   other_expenses : Choice("other_expenses"),
                   rent_income_ratio : Choice("rent_income_ratio"),
                   mortgage_interest : Choice("mortgage_interest"),
                   mortgage_term : Choice("mortgage_term")] :
            Cardinality({ f \in DOMAIN CalcDefaults : in[f] # CalcDefaults[f] })
              <= MaxChanged } }

-----------------------------------------------------------------------------
(* The dataset.  load_dubai_housing_data draws num_records rows at random; *)
(* the model draws NumRows rows from a few listings that the generator    *)
(* produces from given draws (without lat and lng).  The order of the rows plays no   *)
(* part in any filter or aggregate, so each set of NumRows different       *)
(* listings is taken once, in increasing order of kind.                    *)

NumRows == 3

\* lines 39-47
areas ==
  [a \in {"Downtown", "Marina Area", "Palm Jumeirah", "New Dubai",
          "Academic City", "Sports City", "Old Dubai"} |->
     CASE a = "Downtown" -> {"Downtown Dubai", "Business Bay", "DIFC"}
       [] a = "Marina Area" -> {"Dubai Marina", "JBR", "JLT"}
       [] a = "Palm Jumeirah" -> {"Palm Jumeirah"}
       [] a = "New Dubai" -> {"Dubai Hills Estate", "Arabian Ranches", "Emirates Hills"}
       [] a = "Academic City" -> {"Dubai Silicon Oasis", "Academic City", "International City"}
       [] a = "Sports City" -> {"Sports City", "Motor City", "JVC"}
       [] a = "Old Dubai" -> {"Deira", "Bur Dubai", "Al Karama"}]

\* lines 50-53 and 85: neighborhood_to_area.get(neighborhood, "Other")
neighborhood_to_area(neighborhood) ==
  IF \E a \in DOMAIN areas : neighborhood \in areas[a]
    THEN CHOOSE a \in DOMAIN areas : neighborhood \in areas[a]
    ELSE "Other"

\* line 56
property_types == {"Apartment", "Villa", "Townhouse", "Penthouse", "Studio"}

\* lines 93-100: the bedroom counts that random.choices can return
BedroomChoices(property_type) ==
  CASE property_type = "Studio" -> {0}
    [] property_type = "Apartment" -> 1..4
    [] property_type = "Penthouse" -> 2..5
    [] OTHER -> 2..6

\* without the lower bound of line 103
Bathrooms_NoMinimum(bedrooms, choice) == Min(bedrooms, choice)

\* lines 103-106: choice is one of bedrooms - 1, bedrooms, bedrooms + 1
Bathrooms(bedrooms, choice) == Max(1, Min(bedrooms, choice))

\* lines 109-119: the bounds of random.randint for the property type
SizeDraws(property_type) ==
  CASE property_type = "Studio" -> <<300, 600>>
    [] property_type = "Apartment" -> <<200, 400>>
    [] property_type = "Penthouse" -> <<400, 700>>
    [] OTHER -> <<500, 800>>

\* lines 109-119
SizeSqft(property_type, bedrooms, drawn) ==
  CASE property_type = "Studio" -> drawn
    [] property_type = "Apartment" -> 600 + bedrooms * drawn
    [] property_type = "Penthouse" -> 1500 + bedrooms * drawn
    [] OTHER -> 1200 + bedrooms * drawn

\* lines 123-131, with .get(area, 1.0) of line 146
area_price_factors(area) ==
  CASE area = "Downtown" -> Rat(15, 10)
    [] area = "Marina Area" -> Rat(13, 10)
    [] area = "Palm Jumeirah" -> Rat(18, 10)
    [] area = "New Dubai" -> Rat(11, 10)
    [] area = "Academic City" -> Rat(7, 10)
    [] area = "Sports City" -> Rat(8, 10)
    [] area = "Old Dubai" -> Rat(9, 10)
    [] OTHER -> I(1)

\* lines 134-140, with .get(property_type, 1.0) of line 146
property_type_factors(property_type) ==
  CASE property_type = "Apartment" -> I(1)
    [] property_type = "Villa" -> Rat(13, 10)
    [] property_type = "Townhouse" -> Rat(12, 10)
    [] property_type = "Penthouse" -> Rat(15, 10)
    [] property_type = "Studio" -> Rat(9, 10)
    [] OTHER -> I(1)

\* line 143
base_price_per_sqft == 90

\* lines 146-150: uniform is the value of random.uniform(0.9, 1.1)
PricePerSqft(area, property_type, uniform) ==
  RMul(RMul(I(base_price_per_sqft),
            RMul(area_price_factors(area), property_type_factors(property_type))),
       uniform)

\* line 153: int() of a positive product drops the fraction
PriceYearly(size_sqft, price_per_sqft) ==
  LET product == RMul(I(size_sqft), price_per_sqft)
  IN product[1] \div product[2]

\* line 156: int(round(price_yearly_aed / 12, -2))
PriceMonthly(price_yearly_aed) == 100 * RoundHalfEven(Rat(price_yearly_aed, 12 * 100))

\* the month in which the dataset is generated (line 63: datetime.now())
Today == [year |-> 2026, month |-> 5]

\* line 159: today - timedelta(days = 1..180), kept as the year and the month;
\* a listing is at most 180 days old, so the dataset spans one calendar year
\* or two
DatePosted(months_ago) ==
  LET months == 12 * Today.year + (Today.month - 1) - months_ago
  IN [year |-> months \div 12, month |-> (months % 12) + 1]

\* what the generator can draw for one row (lines 82, 89-90, 93-119, 150, 159)
ValidDraw(draw) ==
  /\ draw.property_type \in property_types
  /\ draw.bedrooms \in BedroomChoices(draw.property_type)
  /\ draw.bathrooms_choice \in (draw.bedrooms - 1)..(draw.bedrooms + 1)
  /\ draw.size \in SizeDraws(draw.property_type)[1]..SizeDraws(draw.property_type)[2]
  /\ RLe(Rat(9, 10), draw.uniform) /\ RLe(draw.uniform, Rat(11, 10))
  /\ draw.months_ago \in 0..6

\* lines 80-185 and 191: the row that one pass of the loop appends (without
\* lat and lng, which come from utils/constants.py and which no modelled
\* computation reads), with the price_per_sqft column of line 191
GenerateListing(draw) ==
  LET area == neighborhood_to_area(draw.neighborhood)
      size_sqft == SizeSqft(draw.property_type, draw.bedrooms, draw.size)
      price_yearly_aed ==
        PriceYearly(size_sqft, PricePerSqft(area, draw.property_type, draw.uniform))
  IN [neighborhood |-> draw.neighborhood,
      area |-> area,
      property_type |-> draw.property_type,
      bedrooms |-> draw.bedrooms,
      bathrooms |-> Bathrooms(draw.bedrooms, draw.bathrooms_choice),
      size_sqft |-> size_sqft,
      price_yearly_aed |-> price_yearly_aed,
      price_monthly_aed |-> PriceMonthly(price_yearly_aed),
      date_posted |-> DatePosted(draw.months_ago),
      price_per_sqft |-> Rat(price_yearly_aed, size_sqft)]

Draw(neighborhood, property_type, bedrooms, bathrooms_choice, size, uniform, months_ago) ==
  [neighborhood |-> neighborhood, property_type |-> property_type,
   bedrooms |-> bedrooms, bathrooms_choice |-> bathrooms_choice,
   size |-> size, uniform |-> uniform, months_ago |-> months_ago]

\* the draws of the model's listings
ListingDraws ==
  << Draw("International City", "Apartment", 1, 1, 200, Rat(20, 21), 5),
     Draw("International City", "Apartment", 2, 2, 200, Rat(20, 21), 3),
     Draw("International City", "Apartment", 3, 2, 200, Rat(115, 108), 2),
     Draw("Business Bay", "Studio", 0, -1, 500, Rat(80, 81), 1),
     Draw("Business Bay", "Penthouse", 5, 6, 400, Rat(512, 567), 0) >>

\* draws over the whole range of each random call: every property type with
\* each of its bedroom counts, the three bathroom choices, the ends of the
\* size range and of the uniform factor, the newest and the oldest month
DrawSpace ==
  { draw \in
      [neighborhood : {"International City", "Business Bay", "Palm Jumeirah"},
       property_type : property_types,
       bedrooms : 0..6,
       bathrooms_choice : -1..7,
       size : {200, 300, 400, 500, 600, 700, 800},
       uniform : {Rat(9, 10), I(1), Rat(11, 10)},
       months_ago : {0, 6}] :
      /\ ValidDraw(draw)
      /\ draw.size \in {SizeDraws(draw.property_type)[1], SizeDraws(draw.property_type)[2]} }

GeneratedListings == { GenerateListing(draw) : draw \in DrawSpace }

ListingKinds == [k \in 1..Len(ListingDraws) |-> GenerateListing(ListingDraws[k])]

\* lines 66 and 188: the id column is 1..num_records, row by row
WithId(id, listing) == [id |-> id] @@ listing

DataSets ==
  { [i \in 1..NumRows |-> WithId(i, ListingKinds[k[i]])] :
      k \in { f \in [1..NumRows -> 1..Len(ListingKinds)] :
                \A i \in 1..(NumRows - 1) : f[i] < f[i + 1] } }

Range(q) == { q[i] : i \in 1..Len(q) }

\* how many times the model lets the cached entry be replaced
MaxLoads == 2

\* no call of load_dubai_housing_data has been made yet
EmptyCache ==
  [result |-> "Empty", rows |-> <<>>, batch |-> <<>>, expired |-> TRUE, generation |-> 0]

\* lines 22-194: a call that goes through returns the DataFrame built from
\* data_dict, every row of which this call appended; batch is the number of
\* the call that generated each row
Generated(generation, rows) ==
  [result |-> "DataFrame", rows |-> rows,
   batch |-> [i \in 1..Len(rows) |-> generation],
   expired |-> FALSE, generation |-> generation]

\* lines 196-197: an exception in the try block is reported by st.error and
\* the function falls off its end, so the call returns None
GenerationFailed(generation) ==
  [result |-> "None", rows |-> <<>>, batch |-> <<>>,
   expired |-> FALSE, generation |-> generation]

\* a loader that is not cached: every call generates
LoadOutcomes_NoCache(entry) ==
  { Generated(entry.generation + 1, rows) : rows \in DataSets }
    \cup {GenerationFailed(entry.generation + 1)}

\* line 10, @st.cache_data(ttl=3600): within the ttl a call returns the cached
\* value, None included; after it the function runs again and what it returns
\* replaces the entry.  Whether the generation raises depends on
\* utils/constants.py, so both outcomes are possible
LoadOutcomes(entry) ==
  IF ~entry.expired
    THEN {entry}
    ELSE { Generated(entry.generation + 1, rows) : rows \in DataSets }
           \cup {GenerationFailed(entry.generation + 1)}

\* sorted(...unique().tolist()): Python orders strings by code point
NeighborhoodOrder == <<"Business Bay", "International City">>
PropertyTypeOrder == <<"Apartment", "Penthouse", "Studio", "Townhouse", "Villa">>
AreaOrder == <<"Academic City", "Downtown">>
YearOrder == <<2025, 2026>>

SortedUnique(order, values) == SelectSeq(order, LAMBDA v : v \in values)

-----------------------------------------------------------------------------
(* show_comparison_tool                                                    *)

Neighborhoods(df) == SortedUnique(NeighborhoodOrder, { df[i].neighborhood : i \in 1..Len(df) })

PropertyTypes(df) ==
  <<"All">> \o SortedUnique(PropertyTypeOrder, { df[i].property_type : i \in 1..Len(df) })

BedroomOptions == <<"All", "Studio", "1 BR", "2 BR", "3+ BR">>


annual_income_default == 200000

\* lines 26-46 and 163-170: the widgets' initial values
CmpDefaults(df) ==
  [nb1 |-> Neighborhoods(df)[1],
   nb2 |-> Neighborhoods(df)[Min(1, Len(Neighborhoods(df)) - 1) + 1],
   nb3 |-> "None",
   nb4 |-> "None",
   property_type |-> "All",
   bedrooms |-> "All",
   annual_income |-> annual_income_default]

\* slider values: the minimum, one between, the default (lines 163-170)
AnnualIncomes == {50000, 150000, annual_income_default}

\* lines 34-38
SelectedNeighborhoods(w) ==
  <<w.nb1, w.nb2>> \o (IF w.nb3 # "None" THEN <<w.nb3>> ELSE <<>>)
                   \o (IF w.nb4 # "None" THEN <<w.nb4>> ELSE <<>>)

\* variant: "3+ BR" keeps the rows of exactly 3 bedrooms
BedroomsMatch_ThreeOnly(row, selected_bedrooms) ==
  CASE selected_bedrooms = "All" -> TRUE
    [] selected_bedrooms = "Studio" -> row.bedrooms = 0
    [] selected_bedrooms = "1 BR" -> row.bedrooms = 1
    [] selected_bedrooms = "2 BR" -> row.bedrooms = 2
    [] selected_bedrooms = "3+ BR" -> row.bedrooms = 3
    [] OTHER -> TRUE

\* lines 51-62
BedroomsMatch(row, selected_bedrooms) ==
  CASE selected_bedrooms = "All" -> TRUE
    [] selected_bedrooms = "Studio" -> row.bedrooms = 0
    [] selected_bedrooms = "1 BR" -> row.bedrooms = 1
    [] selected_bedrooms = "2 BR" -> row.bedrooms = 2
    [] selected_bedrooms = "3+ BR" -> row.bedrooms >= 3
    [] OTHER -> TRUE

FilteredData(df, selected_property_type, selected_bedrooms) ==
  SelectSeq(df, LAMBDA row :
    /\ (selected_property_type # "All" => row.property_type = selected_property_type)
    /\ BedroomsMatch(row, selected_bedrooms))

\* line 65
NeighborhoodData(filtered_data, selected_neighborhoods) ==
  SelectSeq(filtered_data, LAMBDA row : row.neighborhood \in Range(selected_neighborhoods))

\* variant: neighborhoods are reported missing only when no row at all is left
MissingNeighborhoods_OnlyWhenEmpty(selected_neighborhoods, neighborhood_data) ==
  IF neighborhood_data = <<>> THEN selected_neighborhoods ELSE <<>>

\* line 68
MissingNeighborhoods(selected_neighborhoods, neighborhood_data) ==
  SelectSeq(selected_neighborhoods,
            LAMBDA nb : nb \notin { neighborhood_data[i].neighborhood :
                                      i \in 1..Len(neighborhood_data) })

\* the sum of a group's price_yearly_aed, for "mean"
RECURSIVE SumPrices(_)
SumPrices(rows) ==
  IF rows = <<>> THEN 0 ELSE Head(rows).price_yearly_aed + SumPrices(Tail(rows))

\* the values of a column in ascending order
RECURSIVE SortedValues(_)
SortedValues(values) ==
  IF values = <<>> THEN <<>>
  ELSE LET i == CHOOSE j \in 1..Len(values) : \A k \in 1..Len(values) : values[j] <= values[k]
       IN <<values[i]>> \o SortedValues(SubSeq(values, 1, i - 1)
                                          \o SubSeq(values, i + 1, Len(values)))

PricesOf(rows) == [i \in 1..Len(rows) |-> rows[i].price_yearly_aed]

\* variant: the upper of the two middle values when the count is even
Median_UpperMiddle(values) == I(SortedValues(values)[Len(values) \div 2 + 1])

\* "median": the middle value, or the mean of the two middle values
Median(values) ==
  LET sorted == SortedValues(values)
      n == Len(values)
  IN IF n % 2 = 1 THEN I(sorted[(n + 1) \div 2])
     ELSE Rat(sorted[n \div 2] + sorted[n \div 2 + 1], 2)

\* variant: the columns min and max exchanged
PriceStats_MinMaxSwapped(neighborhood, nb_data) ==
  [neighborhood |-> neighborhood,
   price_yearly_aed_mean |-> Rat(SumPrices(nb_data), Len(nb_data)),
   price_yearly_aed_median |-> Median(PricesOf(nb_data)),
   price_yearly_aed_min |-> SortedValues(PricesOf(nb_data))[Len(nb_data)],
   price_yearly_aed_max |-> SortedValues(PricesOf(nb_data))[1],
   price_yearly_aed_count |-> Len(nb_data)]

\* lines 80-90: the row of price_comparison for one group of neighborhood_data
PriceStats(neighborhood, nb_data) ==
  [neighborhood |-> neighborhood,
   price_yearly_aed_mean |-> Rat(SumPrices(nb_data), Len(nb_data)),
   price_yearly_aed_median |-> Median(PricesOf(nb_data)),
   price_yearly_aed_min |-> SortedValues(PricesOf(nb_data))[1],
   price_yearly_aed_max |-> SortedValues(PricesOf(nb_data))[Len(nb_data)],
   price_yearly_aed_count |-> Len(nb_data)]

\* lines 78-90: groupby("neighborhood") has one row for each neighborhood that
\* occurs in neighborhood_data, in the order of the keys
PriceComparison(neighborhood_data) ==
  LET keys == SortedUnique(NeighborhoodOrder,
                           { neighborhood_data[i].neighborhood : i \in 1..Len(neighborhood_data) })
  IN [k \in 1..Len(keys) |->
        PriceStats(keys[k], SelectSeq(neighborhood_data,
                                      LAMBDA row : row.neighborhood = keys[k]))]

\* line 174
AffordableYearlyRentOf(annual_income) == RMul(I(annual_income), Rat(3, 10))

\* line 186: nb_data["price_yearly_aed"].mean()
AvgPrice(nb_data) == Rat(SumPrices(nb_data), Len(nb_data))

\* line 187
AffordabilityRatio(avg_price, affordable_yearly_rent) == RDiv(avg_price, affordable_yearly_rent)

\* variant: a ratio of exactly 1 is not affordable
AffordabilityStatus_Strict(affordability_ratio) ==
  IF RLt(affordability_ratio, I(1)) THEN "Affordable" ELSE "Unaffordable"

\* line 188
AffordabilityStatus(affordability_ratio) ==
  IF RLe(affordability_ratio, I(1)) THEN "Affordable" ELSE "Unaffordable"

\* int(x): the integer part of x, toward zero
IntOf(x) == IF x[1] < 0 THEN -((-x[1]) \div x[2]) ELSE x[1] \div x[2]

\* variant: rounded to the nearest integer instead of truncated
AffordabilityScore_Rounded(affordability_ratio) ==
  IF RLt(I(1), affordability_ratio)
    THEN Max(0, Min(100, IntOf(RAdd(RMul(RSub(I(1), RSub(affordability_ratio, I(1))), I(100)),
                                    Rat(1, 2)))))
    ELSE 100

\* variant: not clamped to [0, 100]
AffordabilityScore_Unclamped(affordability_ratio) ==
  IF RLt(I(1), affordability_ratio)
    THEN IntOf(RMul(RSub(I(1), RSub(affordability_ratio, I(1))), I(100)))
    ELSE 100

\* line 189
AffordabilityScore(affordability_ratio) ==
  IF RLt(I(1), affordability_ratio)
    THEN Max(0, Min(100, IntOf(RMul(RSub(I(1), RSub(affordability_ratio, I(1))), I(100)))))
    ELSE 100

\* variant: a price equal to the budget is not counted
WithinBudget_Strict(nb_data, affordable_yearly_rent) ==
  RMul(Rat(Len(SelectSeq(nb_data, LAMBDA row :
                 RLt(I(row.price_yearly_aed), affordable_yearly_rent))),
           Len(nb_data)),
       I(100))

\* line 192: (nb_data["price_yearly_aed"] <= affordable_yearly_rent).mean() * 100
WithinBudget(nb_data, affordable_yearly_rent) ==
  RMul(Rat(Len(SelectSeq(nb_data, LAMBDA row :
                 RLe(I(row.price_yearly_aed), affordable_yearly_rent))),
           Len(nb_data)),
       I(100))

\* lines 183-201: the entry of one selected neighborhood, <<>> when it has no rows
AffordabilityEntry(neighborhood, neighborhood_data, affordable_yearly_rent) ==
  LET nb_data == SelectSeq(neighborhood_data, LAMBDA row : row.neighborhood = neighborhood)
      avg_price == AvgPrice(nb_data)
      affordability_ratio == AffordabilityRatio(avg_price, affordable_yearly_rent)
  IN IF Len(nb_data) > 0
       THEN << [neighborhood |-> neighborhood,
                avg_price |-> avg_price,
                affordability_ratio |-> affordability_ratio,
                affordability_status |-> AffordabilityStatus(affordability_ratio),
                affordability_score |-> AffordabilityScore(affordability_ratio),
                within_budget_pct |-> WithinBudget(nb_data, affordable_yearly_rent)] >>
       ELSE <<>>

\* lines 178-203: the loop over selected_neighborhoods
RECURSIVE AffordabilityLoop(_, _, _)
AffordabilityLoop(selected_neighborhoods, neighborhood_data, affordable_yearly_rent) ==
  IF selected_neighborhoods = <<>> THEN <<>>
  ELSE AffordabilityEntry(Head(selected_neighborhoods), neighborhood_data,
                          affordable_yearly_rent)
         \o AffordabilityLoop(Tail(selected_neighborhoods), neighborhood_data,
                              affordable_yearly_rent)

AffordabilityData(selected_neighborhoods, neighborhood_data, affordable_yearly_rent) ==
  IF Len(neighborhood_data) > 0
    THEN AffordabilityLoop(selected_neighborhoods, neighborhood_data, affordable_yearly_rent)
    ELSE <<>>

NotShown == [shown |-> FALSE]

\* show_comparison_tool(data): what one run of the page computes
ShowComparisonTool(df, w) ==
  LET selected_neighborhoods == SelectedNeighborhoods(w)
      filtered_data == FilteredData(df, w.property_type, w.bedrooms)
      neighborhood_data == NeighborhoodData(filtered_data, selected_neighborhoods)
      affordable_yearly_rent == AffordableYearlyRentOf(w.annual_income)
  IN [shown |-> TRUE,
      selected_neighborhoods |-> selected_neighborhoods,
      filtered_data |-> filtered_data,
      neighborhood_data |-> neighborhood_data,
      missing_neighborhoods |-> MissingNeighborhoods(selected_neighborhoods, neighborhood_data),
      price_comparison |-> PriceComparison(neighborhood_data),
      affordable_yearly_rent |-> affordable_yearly_rent,
      affordability_data |-> AffordabilityData(selected_neighborhoods, neighborhood_data,
                                               affordable_yearly_rent)]

-----------------------------------------------------------------------------
(* show_map_visualization                                                  *)

\* line 26
MapBedroomOptions == <<"All", "Studio", "1", "2", "3", "4+">>

\* line 30: int(data["price_yearly_aed"].max())
MaxPriceOf(df) == SortedValues(PricesOf(df))[Len(df)]

\* lines 31-37: the slider's initial value (0, int(max_price * 0.6))
DefaultPriceRange(df) == <<0, (MaxPriceOf(df) * 6) \div 10>>

MapDefaults(df) ==
  [property_type |-> "All",
   bedrooms |-> "All",
   price_range |-> DefaultPriceRange(df)]

\* ranges the slider can be set to (step 5000, within 0..max_price)
PriceRanges(df) ==
  {DefaultPriceRange(df)}
    \cup { r \in {<<0, 60000>>, <<60000, 60000>>, <<0, 640000>>} : r[2] <= MaxPriceOf(df) }

\* variant: "4+" keeps the rows of exactly 4 bedrooms
MapBedroomsMatch_FourOnly(row, selected_bedrooms) ==
  CASE selected_bedrooms = "All" -> TRUE
    [] selected_bedrooms = "Studio" -> row.bedrooms = 0
    [] selected_bedrooms = "4+" -> row.bedrooms = 4
    [] selected_bedrooms = "1" -> row.bedrooms = 1
    [] selected_bedrooms = "2" -> row.bedrooms = 2
    [] selected_bedrooms = "3" -> row.bedrooms = 3

\* lines 45-51
MapBedroomsMatch(row, selected_bedrooms) ==
  CASE selected_bedrooms = "All" -> TRUE
    [] selected_bedrooms = "Studio" -> row.bedrooms = 0
    [] selected_bedrooms = "4+" -> row.bedrooms >= 4
    [] selected_bedrooms = "1" -> row.bedrooms = 1
    [] selected_bedrooms = "2" -> row.bedrooms = 2
    [] selected_bedrooms = "3" -> row.bedrooms = 3

\* lines 39-56
MapFilteredData(df, selected_property_type, selected_bedrooms, price_range) ==
  SelectSeq(df, LAMBDA row :
    /\ (selected_property_type # "All" => row.property_type = selected_property_type)
    /\ MapBedroomsMatch(row, selected_bedrooms)
    /\ row.price_yearly_aed >= price_range[1]
    /\ row.price_yearly_aed <= price_range[2])

\* groupby("neighborhood") with the mean and the count of price_yearly_aed:
\* one row for each neighborhood of the rows, in the order of the keys
GroupByNeighborhood(rows) ==
  LET keys == SortedUnique(NeighborhoodOrder, { rows[i].neighborhood : i \in 1..Len(rows) })
  IN [k \in 1..Len(keys) |->
        [neighborhood |-> keys[k],
         avg_price |-> AvgPrice(SelectSeq(rows, LAMBDA row : row.neighborhood = keys[k])),
         property_count |-> Len(SelectSeq(rows, LAMBDA row : row.neighborhood = keys[k]))]]

\* line 86: neighborhood_data["avg_price"].max()
RECURSIVE MaxAvgPrice(_)
MaxAvgPrice(groups) ==
  IF Len(groups) = 1 THEN groups[1].avg_price
  ELSE IF RLe(MaxAvgPrice(Tail(groups)), groups[1].avg_price) THEN groups[1].avg_price
  ELSE MaxAvgPrice(Tail(groups))

\* lines 80-88: the circle marker of each neighborhood; price_ratio is computed
\* by a division by max_avg_price
Markers(neighborhood_data) ==
  [k \in 1..Len(neighborhood_data) |->
     [neighborhood |-> neighborhood_data[k].neighborhood,
      max_avg_price |-> MaxAvgPrice(neighborhood_data),
      price_ratio |-> RDiv(neighborhood_data[k].avg_price, MaxAvgPrice(neighborhood_data))]]

\* sort_values("price_yearly_aed") with pandas' default kind "quicksort":
\* ascending in the column; the order among rows of equal value is left to the
\* sorting routine of the build, so every such order is an outcome
SortValues(rows) ==
  { [k \in 1..Len(rows) |-> rows[f[k]]] :
      f \in { g \in [1..Len(rows) -> 1..Len(rows)] :
                /\ \A i, j \in 1..Len(rows) : g[i] = g[j] => i = j
                /\ \A i \in 1..(Len(rows) - 1) :
                     RLe(rows[g[i]].avg_price, rows[g[i + 1]].avg_price) } }

\* .head(n)
HeadRows(rows, n) == SubSeq(rows, 1, Min(n, Len(rows)))

\* lines 139-147: the outcomes of the "most affordable neighborhoods" ranking
AffordableNeighborhoods(filtered_data) ==
  { HeadRows(sorted, 5) : sorted \in SortValues(GroupByNeighborhood(filtered_data)) }

\* show_map_visualization(data): the outcomes of one run of the page
ShowMapVisualization(df, w) ==
  LET filtered_data == MapFilteredData(df, w.property_type, w.bedrooms, w.price_range)
  IN { [shown |-> TRUE,
        max_price |-> MaxPriceOf(df),
        filtered_data |-> filtered_data,
        markers |-> Markers(GroupByNeighborhood(filtered_data)),
        affordable_neighborhoods |-> ranking] :
       ranking \in IF Len(filtered_data) > 0
                     THEN AffordableNeighborhoods(filtered_data) ELSE {<<>>} }

-----------------------------------------------------------------------------
(* show_trend_analysis                                                     *)

\* line 33
Areas(df) == <<"All">> \o SortedUnique(AreaOrder, { df[i].area : i \in 1..Len(df) })

TrendDefaults == [property_type |-> "All", bedrooms |-> "All", area |-> "All"]

\* lines 36-53
TrendFilteredData(df, selected_property_type, selected_bedrooms, selected_area) ==
  SelectSeq(df, LAMBDA row :
    /\ (selected_property_type # "All" => row.property_type = selected_property_type)
    /\ BedroomsMatch(row, selected_bedrooms)
    /\ (selected_area # "All" => row.area = selected_area))

\* line 86: the years of date_posted, ascending
Years(rows) == SortedUnique(YearOrder, { rows[i].date_posted.year : i \in 1..Len(rows) })

\* lines 91-96: the rounded average price of each year
YearlyAvg(rows) ==
  [k \in 1..Len(Years(rows)) |->
     [date_posted |-> Years(rows)[k],
      price_yearly_aed |->
        RoundHalfEven(AvgPrice(SelectSeq(rows, LAMBDA row : row.date_posted.year = Years(rows)[k])))]]

\* lines 100-104: the change from the year before the last to the last, in
\* percent, by a division by the earlier year's average
PctChange(yearly_avg) ==
  RMul(RDiv(I(yearly_avg[Len(yearly_avg)].price_yearly_aed
                - yearly_avg[Len(yearly_avg) - 1].price_yearly_aed),
            I(yearly_avg[Len(yearly_avg) - 1].price_yearly_aed)),
       I(100))

\* filtered_data = data with no copy taken: the two names are one frame
Copy_SameFrame(df) == [rows |-> df, is_data |-> TRUE]

\* line 37: filtered_data = data.copy() is a frame of its own
Copy(df) == [rows |-> df, is_data |-> FALSE]

\* lines 39-53: filtered_data = filtered_data[mask] selects into a new frame;
\* with every filter at "All" no selection is made and the frame is the one
\* of line 37
TrendFrame(df, w) ==
  [rows |-> TrendFilteredData(Copy(df).rows, w.property_type, w.bedrooms, w.area),
   is_data |-> /\ Copy(df).is_data
               /\ w.property_type = "All" /\ w.bedrooms = "All" /\ w.area = "All"]

\* line 68: strftime("%Y-%m") of date_posted
YearMonth(row) == <<row.date_posted.year, row.date_posted.month>>

\* line 266: dt.to_period("Q") of date_posted
YearQuarter(row) == <<row.date_posted.year, ((row.date_posted.month - 1) \div 3) + 1>>

\* lines 68, 234 and 266: the columns assigned to filtered_data in the three
\* tabs; a run that raises in the first tab assigns the first one only
AssignColumns(rows, raised) ==
  [i \in 1..Len(rows) |->
     IF raised
       THEN [year_month |-> YearMonth(rows[i])] @@ rows[i]
       ELSE [year_month |-> YearMonth(rows[i]),
             price_per_sqft |-> Rat(rows[i].price_yearly_aed, rows[i].size_sqft),
             year_quarter |-> YearQuarter(rows[i])] @@ rows[i]]

\* show_trend_analysis(data), the first tab: with listings of more than one
\* year the year-over-year change; otherwise line 116 takes int() of the mean
\* price, which raises ValueError when no row is left (the mean is NaN).
\* frame is filtered_data when the run ends and data the frame that was
\* passed in, which has the assigned columns only if it is filtered_data
ShowTrendAnalysis(df, w) ==
  LET filtered_data == TrendFrame(df, w).rows
      years == Years(filtered_data)
      frame == AssignColumns(filtered_data, Len(filtered_data) = 0)
  IN [shown |-> TRUE,
      data |-> IF TrendFrame(df, w).is_data THEN frame ELSE df,
      filtered_data |-> filtered_data,
      frame |-> frame,
      years |-> years,
      yearly_avg |-> IF Len(years) > 1 THEN YearlyAvg(filtered_data) ELSE <<>>,
      pct_change |-> IF Len(years) > 1 THEN <<PctChange(YearlyAvg(filtered_data))>> ELSE <<>>,
      raised |-> IF Len(filtered_data) = 0 THEN "ValueError" ELSE "None"]

-----------------------------------------------------------------------------
(* app.py: one run of the script per step.  A widget that a run does not   *)
(* render has no value in the next run, so a page that is entered starts   *)
(* from its widgets' defaults; st.session_state outlives the page.         *)

Pages ==
  {"Interactive Map", "Rental Trends", "Neighborhood Comparison",
   "Affordability Calculator", "Housing Resources"}

NoWidgets == [rendered |-> FALSE]

\* lines 74-87: the page function that the script calls for page p.  data is
\* the loaded frame after the call: the map and the comparison page work on
\* data.copy() too (map_visualization.py 40, comparison_tool.py 49) and
\* assign columns to frames of their own only (comparison_tool.py 107-120,
\* 320-335)
RunPage(p, df, submitted, ss, form, w, mw, tw) ==
  [data |-> IF p = "Rental Trends" THEN ShowTrendAnalysis(df, tw).data ELSE df,
   session_state |->
     IF p = "Affordability Calculator"
       THEN SessionStateAfter(submitted, ss) ELSE ss,
   calc_in |-> IF p = "Affordability Calculator" THEN form ELSE NoWidgets,
   calc_out |->
     IF p = "Affordability Calculator"
       THEN ShowAffordabilityCalculator(submitted, ss, form) ELSE NoResults,
   cmp_in |-> IF p = "Neighborhood Comparison" THEN w ELSE NoWidgets,
   cmp_out |-> IF p = "Neighborhood Comparison" THEN ShowComparisonTool(df, w) ELSE NotShown,
   map_in |-> IF p = "Interactive Map" THEN mw ELSE NoWidgets,
   map_out |-> IF p = "Interactive Map" THEN ShowMapVisualization(df, mw) ELSE {NotShown},
   trend_in |-> IF p = "Rental Trends" THEN tw ELSE NoWidgets,
   trend_out |-> IF p = "Rental Trends" THEN ShowTrendAnalysis(df, tw) ELSE NotShown]

Apply(run) ==
  /\ data' = run.data
  /\ session_state' = run.session_state
  /\ calc_in' = run.calc_in
  /\ calc_out' = run.calc_out
  /\ cmp_in' = run.cmp_in
  /\ cmp_out' = run.cmp_out
  /\ map_in' = run.map_in
  /\ map_out' \in run.map_out
  /\ trend_in' = run.trend_in
  /\ trend_out' = run.trend_out

\* app.py lines 42-49: the script reports an error and stops
LoadFailed(loaded) == loaded.result # "DataFrame" \/ Len(loaded.rows) = 0

\* the value of the sidebar radio in a run that does not reach line 53
NoPage == "None"

\* a run in which the radio keeps its value although the script stopped
PageAfterStop_Navigates(p) == p

\* lines 44 and 49: st.stop() ends the run before the radio of line 53
PageAfterStop(p) == NoPage

\* lines 38-49: a run that st.stop() ends has rendered no page and no widget
StoppedRun(ss) ==
  [data |-> <<>>, session_state |-> ss,
   calc_in |-> NoWidgets, calc_out |-> NoResults,
   cmp_in |-> NoWidgets, cmp_out |-> NotShown,
   map_in |-> NoWidgets, map_out |-> {NotShown},
   trend_in |-> NoWidgets, trend_out |-> NotShown]

\* lines 38-87: one run of the script, in which the loader returned loaded
\* and, if the load did not fail, the radio has the value p
Run(loaded, p, run) ==
  /\ cache' = loaded
  /\ IF LoadFailed(loaded)
       THEN page' = PageAfterStop(p) /\ Apply(StoppedRun(session_state))
       ELSE page' = p /\ Apply(run)

\* the state after the first run of the script, the loader having returned
\* what the cache holds
AfterFirstRun ==
  /\ session_state = {}
  /\ calc_in = NoWidgets
  /\ calc_out = NoResults
  /\ cmp_in = NoWidgets
  /\ cmp_out = NotShown
  /\ trend_in = NoWidgets
  /\ trend_out = NotShown
  /\ IF LoadFailed(cache)
       THEN /\ data = <<>>
            /\ page = PageAfterStop("Interactive Map")
            /\ map_in = NoWidgets
            /\ map_out = NotShown
       ELSE /\ data = cache.rows
            /\ page = "Interactive Map"
            /\ map_in = MapDefaults(data)
            /\ map_out \in ShowMapVisualization(data, map_in)

\* the first load went through
Init ==
  /\ cache \in { Generated(1, rows) : rows \in DataSets }
  /\ AfterFirstRun

\* the first load went through or failed
InitLoad ==
  /\ cache \in LoadOutcomes(EmptyCache)
  /\ AfterFirstRun

\* the sidebar radio changes: the script runs and renders page p
SelectPage(p) ==
  /\ page # NoPage
  /\ p # page
  /\ \E loaded \in LoadOutcomes(cache) :
       Run(loaded, p,
           RunPage(p, loaded.rows, FALSE, session_state, CalcDefaults,
                   CmpDefaults(loaded.rows), MapDefaults(loaded.rows), TrendDefaults))

\* "Calculate Affordability" is pressed with the form holding the values in
SubmitForm(in) ==
  /\ page = "Affordability Calculator"
  /\ \E loaded \in LoadOutcomes(cache) :
       Run(loaded, page,
           RunPage(page, loaded.rows, TRUE, session_state, in, cmp_in, map_in, trend_in))

\* one widget of the comparison page changes.  The widgets whose options come
\* from the dataset are modelled within the ttl of the cached dataset
ChangeNeighborhood(k, nb) ==
  /\ page = "Neighborhood Comparison"
  /\ nb \in Range(Neighborhoods(data)) \cup (IF k \in {"nb3", "nb4"} THEN {"None"} ELSE {})
  /\ cmp_in[k] # nb
  /\ ~cache.expired
  /\ \E loaded \in LoadOutcomes(cache) :
       Run(loaded, page,
           RunPage(page, loaded.rows, FALSE, session_state, calc_in, [cmp_in EXCEPT ![k] = nb],
                   map_in, trend_in))

ChangePropertyType(t) ==
  /\ page = "Neighborhood Comparison"
  /\ t \in Range(PropertyTypes(data))
  /\ cmp_in.property_type # t
  /\ ~cache.expired
  /\ \E loaded \in LoadOutcomes(cache) :
       Run(loaded, page,
           RunPage(page, loaded.rows, FALSE, session_state, calc_in,
                   [cmp_in EXCEPT !.property_type = t], map_in, trend_in))

ChangeBedrooms(b) ==
  /\ page = "Neighborhood Comparison"
  /\ cmp_in.bedrooms # b
  /\ ~cache.expired
  /\ \E loaded \in LoadOutcomes(cache) :
       Run(loaded, page,
           RunPage(page, loaded.rows, FALSE, session_state, calc_in,
                   [cmp_in EXCEPT !.bedrooms = b], map_in, trend_in))

ChangeAnnualIncome(a) ==
  /\ page = "Neighborhood Comparison"
  /\ cmp_in.annual_income # a
  /\ ~cache.expired
  /\ \E loaded \in LoadOutcomes(cache) :
       Run(loaded, page,
           RunPage(page, loaded.rows, FALSE, session_state, calc_in,
                   [cmp_in EXCEPT !.annual_income = a], map_in, trend_in))

\* one widget of the map page changes
ChangeMapPropertyType(t) ==
  /\ page = "Interactive Map"
  /\ t \in Range(PropertyTypes(data))
  /\ map_in.property_type # t
  /\ ~cache.expired
  /\ \E loaded \in LoadOutcomes(cache) :
       Run(loaded, page,
           RunPage(page, loaded.rows, FALSE, session_state, calc_in, cmp_in,
                   [map_in EXCEPT !.property_type = t], trend_in))

ChangeMapBedrooms(b) ==
  /\ page = "Interactive Map"
  /\ map_in.bedrooms # b
  /\ ~cache.expired
  /\ \E loaded \in LoadOutcomes(cache) :
       Run(loaded, page,
           RunPage(page, loaded.rows, FALSE, session_state, calc_in, cmp_in,
                   [map_in EXCEPT !.bedrooms = b], trend_in))

ChangePriceRange(r) ==
  /\ page = "Interactive Map"
  /\ r \in PriceRanges(data)
  /\ map_in.price_range # r
  /\ ~cache.expired
  /\ \E loaded \in LoadOutcomes(cache) :
       Run(loaded, page,
           RunPage(page, loaded.rows, FALSE, session_state, calc_in, cmp_in,
                   [map_in EXCEPT !.price_range = r], trend_in))

\* one widget of the trends page changes
ChangeTrendPropertyType(t) ==
  /\ page = "Rental Trends"
  /\ t \in Range(PropertyTypes(data))
  /\ trend_in.property_type # t
  /\ ~cache.expired
  /\ \E loaded \in LoadOutcomes(cache) :
       Run(loaded, page,
           RunPage(page, loaded.rows, FALSE, session_state, calc_in, cmp_in, map_in,
                   [trend_in EXCEPT !.property_type = t]))

ChangeTrendBedrooms(b) ==
  /\ page = "Rental Trends"
  /\ trend_in.bedrooms # b
  /\ ~cache.expired
  /\ \E loaded \in LoadOutcomes(cache) :
       Run(loaded, page,
           RunPage(page, loaded.rows, FALSE, session_state, calc_in, cmp_in, map_in,
                   [trend_in EXCEPT !.bedrooms = b]))

ChangeArea(a) ==
  /\ page = "Rental Trends"
  /\ a \in Range(Areas(data))
  /\ trend_in.area # a
  /\ ~cache.expired
  /\ \E loaded \in LoadOutcomes(cache) :
       Run(loaded, page,
           RunPage(page, loaded.rows, FALSE, session_state, calc_in, cmp_in, map_in,
                   [trend_in EXCEPT !.area = a]))

Next ==
  \/ \E p \in Pages : SelectPage(p)
  \/ \E in \in CalcInputs : SubmitForm(in)
  \/ \E k \in {"nb1", "nb2", "nb3", "nb4"}, nb \in Range(NeighborhoodOrder) \cup {"None"} :
       ChangeNeighborhood(k, nb)
  \/ \E t \in Range(PropertyTypeOrder) \cup {"All"} : ChangePropertyType(t)
  \/ \E b \in Range(BedroomOptions) : ChangeBedrooms(b)
  \/ \E a \in AnnualIncomes : ChangeAnnualIncome(a)
  \/ \E t \in Range(PropertyTypeOrder) \cup {"All"} : ChangeMapPropertyType(t)
  \/ \E b \in Range(MapBedroomOptions) : ChangeMapBedrooms(b)
  \/ \E r \in UNION { PriceRanges(df) : df \in DataSets } : ChangePriceRange(r)
  \/ \E t \in Range(PropertyTypeOrder) \cup {"All"} : ChangeTrendPropertyType(t)
  \/ \E b \in Range(BedroomOptions) : ChangeTrendBedrooms(b)
  \/ \E a \in Range(AreaOrder) \cup {"All"} : ChangeArea(a)

Spec == Init /\ [][Next]_vars

\* the ttl of the cached entry runs out
Expire ==
  /\ ~cache.expired
  /\ cache.generation < MaxLoads
  /\ cache' = [cache EXCEPT !.expired = TRUE]
  /\ UNCHANGED <<data, page, session_state, calc_in, calc_out, cmp_in, cmp_out,
                 map_in, map_out, trend_in, trend_out>>

\* after "Please try again later" the page is loaded again: no widget is on
\* the screen, so the radio has its first option
Retry ==
  /\ page = NoPage
  /\ \E loaded \in LoadOutcomes(cache) :
       Run(loaded, "Interactive Map",
           RunPage("Interactive Map", loaded.rows, FALSE, session_state, CalcDefaults,
                   CmpDefaults(loaded.rows), MapDefaults(loaded.rows), TrendDefaults))

\* the forms submitted while the dataset is reloaded: the defaults and the
\* forms that differ from them in the income
LoadInputs ==
  { in \in CalcInputs : \A f \in DOMAIN CalcDefaults \ {"yearly_income"} : in[f] = CalcDefaults[f] }

NextLoad ==
  \/ Expire
  \/ Retry
  \/ \E p \in Pages : SelectPage(p)
  \/ \E in \in LoadInputs : SubmitForm(in)

\* the app with the loader's failure and the expiry of the cached dataset
SpecLoad == InitLoad /\ [][NextLoad]_vars

-----------------------------------------------------------------------------
(* Properties of the affordability calculator                              *)

\* Amounts in fils agree to 0.01 % or to one dirham, whichever is larger
Close(a, b) == Abs(a - b) <= Max(100, Abs(b) \div Base)

\* C1: whenever monthly_payment_capacity <= 0, the computed max_mortgage is 0
\* (never negative) and the result presents no purchase on credit.
C1_NonPositiveCapacityGivesZeroMortgage ==
  (calc_out.shown /\ calc_out.monthly_payment_capacity[1] <= 0)
    => calc_out.max_mortgage = 0

\* C2: monthly_income = yearly_income / 12 + additional_monthly_income,
\* affordable_monthly_rent = monthly_income * (slider / 100) and
\* affordable_yearly_rent = affordable_monthly_rent * 12, for every form.
C2_IncomeAndRent ==
  calc_out.shown =>
    /\ 12 * calc_out.monthly_income[1]
         = (calc_in.yearly_income + 12 * calc_in.additional_income)
             * calc_out.monthly_income[2]
    /\ 100 * calc_out.affordable_rent[1] * calc_out.monthly_income[2]
         = calc_in.rent_income_ratio * calc_out.monthly_income[1]
             * calc_out.affordable_rent[2]
    /\ calc_out.affordable_yearly_rent[1] * calc_out.affordable_rent[2]
         = 12 * calc_out.affordable_rent[1] * calc_out.affordable_yearly_rent[2]

C2_Witness ==
  /\ calc_out.shown
  /\ calc_in.yearly_income > 0
  /\ calc_in.additional_income > 0
  /\ calc_out.monthly_income = <<51500, 3>>

\* The present value of k payments of 1, one per period, discounted at the
\* factor v = 1 / (1 + r) per period: v + v^2 + ... + v^k.  Discounted[v, k]
\* is <<that sum to 10^6, v^k to Scale>>; the sum over 2m periods is the sum
\* over m periods plus the same sum discounted by v^m.
DiscountTwice[h \in Nat \X Nat] == <<h[1] + FxMul[h[1], h[2]], FxMul[h[2], h[2]]>>

DiscountOnce[h \in Nat \X Nat, v \in Nat] == <<FxMul[h[1] + 10 ^ 6, v], FxMul[h[2], v]>>

Discounted[v \in Nat, k \in Nat] ==
  IF k = 0 THEN <<0, Scale>>
  ELSE IF k % 2 = 0 THEN DiscountTwice[Discounted[v, k \div 2]]
  ELSE DiscountOnce[Discounted[v, k - 1], v]

DiscountedSum[v \in Nat, k \in Nat] == Discounted[v, k][1]

PresentValue(capacity, r, n) ==
  LET pv == MulDivS[DiscountedSum[MulDivS[Scale, r[2], r[1] + r[2]], n],
                    Abs(capacity[1]), capacity[2] * Base]
  IN IF capacity[1] < 0 THEN -pv ELSE pv

\* C3: with r = annual rate / 12 and n = term years * 12, max_mortgage is
\* monthly_payment_capacity * (1 - (1+r)^(-n)) / r when r > 0 (the present
\* value of n monthly payments of the capacity), and capacity * n when r = 0
\* (the branch taken for a rate of 0, which the slider does not offer; the
\* amount is exact to the fils it is kept in).
C3_MaxMortgageIsPresentValue ==
  calc_out.shown =>
    /\ 1200 * calc_out.r[1] * 10 = calc_in.mortgage_interest * calc_out.r[2]
    /\ calc_out.n = calc_in.mortgage_term * 12
    /\ calc_out.r[1] > 0 =>
         Close(calc_out.max_mortgage,
               PresentValue(calc_out.monthly_payment_capacity, calc_out.r, calc_out.n))
    /\ Abs(MaxMortgage(calc_out.monthly_payment_capacity, I(0), calc_out.n)
               * calc_out.monthly_payment_capacity[2]
             - calc_out.monthly_payment_capacity[1] * calc_out.n * 100)
         < calc_out.monthly_payment_capacity[2]

C3_Witness ==
  /\ calc_out.shown
  /\ calc_out.r = <<1, 120>>
  /\ calc_out.n = 300
  /\ calc_out.max_mortgage > 10 ^ 7

\* C4: max_purchase_price = max_mortgage + down_payment, for every form.
C4_PurchasePrice ==
  calc_out.shown =>
    calc_out.max_purchase_price - calc_out.max_mortgage = calc_in.down_payment * 100

C4_Witness ==
  /\ calc_out.shown
  /\ calc_in.down_payment > 0
  /\ calc_out.max_mortgage > 0
  /\ calc_out.max_purchase_price > calc_out.max_mortgage

\* C5: for capacity >= 0, the monthly mortgage payment that the projection
\* derives from max_mortgage is the monthly_payment_capacity again (to one
\* dirham), so the yearly mortgage cost of the projection is capacity * 12;
\* the same holds of the two branches for a rate of 0.
C5_RoundTrip ==
  (calc_out.shown /\ calc_out.monthly_payment_capacity[1] >= 0) =>
    /\ Abs(calc_out.monthly_mortgage * calc_out.monthly_payment_capacity[2]
             - 100 * calc_out.monthly_payment_capacity[1])
         <= 100 * calc_out.monthly_payment_capacity[2]
    /\ Abs(calc_out.yearly_mortgage * calc_out.monthly_payment_capacity[2]
             - 1200 * calc_out.monthly_payment_capacity[1])
         <= 1200 * calc_out.monthly_payment_capacity[2]
    /\ Abs(MonthlyMortgage(MaxMortgage(calc_out.monthly_payment_capacity, I(0), calc_out.n),
                           I(0), calc_out.n)
               * calc_out.monthly_payment_capacity[2]
             - 100 * calc_out.monthly_payment_capacity[1])
         <= 100 * calc_out.monthly_payment_capacity[2]

C5_Witness ==
  /\ calc_out.shown
  /\ calc_out.monthly_payment_capacity[1] > 0
  /\ calc_out.r # MonthlyRate(mortgage_interest_default)
  /\ calc_out.monthly_mortgage > 0

\* the scenario of C6: the form as it is first rendered
C6_Scenario ==
  /\ calc_out.shown
  /\ calc_in.yearly_income = 200000
  /\ calc_in.additional_income = 0
  /\ calc_in.rent_income_ratio = 30
  /\ calc_in.debt_payments = 2000
  /\ calc_in.down_payment = 50000
  /\ calc_in.mortgage_interest = 40
  /\ calc_in.mortgage_term = 25

\* C6 as stated: in the scenario max_mortgage lies between 569,000 and
\* 575,000 AED and max_purchase_price = max_mortgage + 50000.
C6_AsStated ==
  C6_Scenario =>
    /\ calc_out.max_mortgage >= 569000 * 100
    /\ calc_out.max_mortgage <= 575000 * 100
    /\ calc_out.max_purchase_price = calc_out.max_mortgage + 50000 * 100

\* C6: in the scenario (capacity 3000, r = 0.04/12, n = 300) max_mortgage
\* lies between 568,000 and 569,000 AED (it is about 568,357) and
\* max_purchase_price = max_mortgage + 50000.
C6_Scenario568 ==
  C6_Scenario =>
    /\ calc_out.monthly_payment_capacity = <<3000, 1>>
    /\ calc_out.r = <<1, 300>>
    /\ calc_out.n = 300
    /\ calc_out.max_mortgage > 568000 * 100
    /\ calc_out.max_mortgage < 569000 * 100
    /\ calc_out.max_purchase_price = calc_out.max_mortgage + 50000 * 100

C6_Witness == C6_Scenario /\ calc_out.max_purchase_price > 618000 * 100

-----------------------------------------------------------------------------
(* Properties of the neighbourhood comparison, stated on the loaded rows   *)
(* and the widgets' values                                                 *)

\* the rows of the dataset that pass the page's filters and lie in nb
Matching(nb) ==
  { i \in 1..Len(data) :
      /\ data[i].neighborhood = nb
      /\ cmp_in.property_type \in {"All", data[i].property_type}
      /\ \/ cmp_in.bedrooms = "All"
         \/ cmp_in.bedrooms = "Studio" /\ data[i].bedrooms = 0
         \/ cmp_in.bedrooms = "1 BR" /\ data[i].bedrooms = 1
         \/ cmp_in.bedrooms = "2 BR" /\ data[i].bedrooms = 2
         \/ cmp_in.bedrooms = "3+ BR" /\ data[i].bedrooms >= 3 }

RECURSIVE SumOver(_)
SumOver(rows) ==
  IF rows = {} THEN 0
  ELSE LET i == CHOOSE j \in rows : TRUE
       IN data[i].price_yearly_aed + SumOver(rows \ {i})

\* ten times the budget: 30 % of the income on the slider
Budget10 == 3 * cmp_in.annual_income

Entries == IF cmp_out.shown THEN Range(cmp_out.affordability_data) ELSE {}

\* (1 - (ratio - 1)) * 100 as numerator over the denominator ratio[2]
ScoreValue(ratio) == (2 * ratio[2] - ratio[1]) * 100

RatioIsAvgOverBudget(e) ==
  /\ Matching(e.neighborhood) # {}
  /\ e.affordability_ratio[1] * Budget10 * Cardinality(Matching(e.neighborhood))
       = 10 * SumOver(Matching(e.neighborhood)) * e.affordability_ratio[2]

\* C7 as stated: affordability_ratio = avg_price / affordable_yearly_rent, and
\* the score is 100 when ratio <= 1, otherwise (1 - (ratio - 1)) * 100 rounded
\* to the nearest integer and clamped to [0, 100].
C7_AsStated ==
  \A e \in Entries :
    /\ RatioIsAvgOverBudget(e)
    /\ e.affordability_ratio[1] <= e.affordability_ratio[2] => e.affordability_score = 100
    /\ e.affordability_ratio[1] > e.affordability_ratio[2] =>
         \/ /\ e.affordability_score = 0
            /\ 2 * ScoreValue(e.affordability_ratio) <= e.affordability_ratio[2]
         \/ /\ e.affordability_score \in 1..100
            /\ 2 * Abs(e.affordability_score * e.affordability_ratio[2]
                         - ScoreValue(e.affordability_ratio))
                 <= e.affordability_ratio[2]

\* C7: affordability_ratio = avg_price / affordable_yearly_rent, and the score
\* is 100 when ratio <= 1, otherwise the integer part of (1 - (ratio - 1)) * 100
\* (truncated toward zero, not rounded) clamped to [0, 100]: the score s has
\* s <= value <= s + 1, the upper equality being the floating-point case of a
\* value that is mathematically an integer and comes out just below it.
C7_ScoreTruncates ==
  \A e \in Entries :
    /\ RatioIsAvgOverBudget(e)
    /\ e.affordability_ratio[1] <= e.affordability_ratio[2] => e.affordability_score = 100
    /\ e.affordability_ratio[1] > e.affordability_ratio[2] =>
         \/ /\ e.affordability_score = 0
            /\ ScoreValue(e.affordability_ratio) <= e.affordability_ratio[2]
         \/ /\ e.affordability_score \in 1..99
            /\ e.affordability_score * e.affordability_ratio[2]
                 <= ScoreValue(e.affordability_ratio)
            /\ ScoreValue(e.affordability_ratio)
                 <= (e.affordability_score + 1) * e.affordability_ratio[2]

\* a score whose value has a fractional part of at least one half
C7_Witness ==
  \E e \in Entries :
    /\ e.affordability_score \in 1..99
    /\ 2 * (ScoreValue(e.affordability_ratio)
              - e.affordability_score * e.affordability_ratio[2])
         >= e.affordability_ratio[2]

\* average prices of 0 %, 10 %, ... 250 % of the budget, as ratios
RatioGrid == { Rat(k, 10) : k \in 0..25 }

\* C8: with affordable_yearly_rent fixed, affordability_score does not increase
\* as avg_price increases, and it lies in [0, 100] for every avg_price.
C8_ScoreMonotone ==
  \A e \in Entries :
    /\ e.affordability_score \in 0..100
    /\ \A f \in Entries :
         RLe(e.avg_price, f.avg_price) => e.affordability_score >= f.affordability_score
    /\ \A g \in RatioGrid :
         /\ AffordabilityScore(g) \in 0..100
         /\ RLe(e.affordability_ratio, g) => AffordabilityScore(g) <= e.affordability_score
         /\ RLe(g, e.affordability_ratio) => AffordabilityScore(g) >= e.affordability_score

C8_Witness ==
  \E e \in Entries, f \in Entries :
    /\ RLt(e.avg_price, f.avg_price)
    /\ e.affordability_score < 100
    /\ f.affordability_score < e.affordability_score

WithinBudgetRows(nb) ==
  { i \in Matching(nb) : 10 * data[i].price_yearly_aed <= Budget10 }

\* C9: for every non-empty group, pct_within_budget is 100 * (rows of the group
\* with yearly price <= budget, the boundary included) / (rows of the group),
\* and so lies in [0, 100].
C9_WithinBudget ==
  \A e \in Entries :
    /\ Matching(e.neighborhood) # {}
    /\ e.within_budget_pct[1] * Cardinality(Matching(e.neighborhood))
         = 100 * Cardinality(WithinBudgetRows(e.neighborhood)) * e.within_budget_pct[2]
    /\ e.within_budget_pct[1] >= 0
    /\ e.within_budget_pct[1] <= 100 * e.within_budget_pct[2]

\* a group whose rows are all priced exactly at the budget counts as 100 %
C9_Witness ==
  \E e \in Entries :
    /\ \A i \in Matching(e.neighborhood) : 10 * data[i].price_yearly_aed = Budget10
    /\ e.within_budget_pct = <<100, 1>>

Selected == ({cmp_in.nb1, cmp_in.nb2, cmp_in.nb3, cmp_in.nb4}) \ {"None"}

\* C10: the selected neighborhoods are partitioned: one with no row after
\* filtering gets no stat and is reported missing, one with a row gets a stat
\* and is not reported missing, whatever the other selections are.
C10_MissingPartition ==
  cmp_out.shown =>
    /\ \A nb \in Selected :
         IF Matching(nb) = {}
           THEN /\ nb \in Range(cmp_out.missing_neighborhoods)
                /\ \A e \in Entries : e.neighborhood # nb
           ELSE /\ nb \notin Range(cmp_out.missing_neighborhoods)
                /\ \E e \in Entries : e.neighborhood = nb
    /\ Range(cmp_out.missing_neighborhoods) \subseteq Selected
    /\ \A e \in Entries : e.neighborhood \in Selected

C10_Witness ==
  /\ cmp_out.shown
  /\ \E nb \in Selected, other \in Selected :
       /\ Matching(nb) = {}
       /\ nb \in Range(cmp_out.missing_neighborhoods)
       /\ Matching(other) # {}
       /\ \E e \in Entries : e.neighborhood = other

\* C11: the comparison produces exactly one stat per neighborhood present in
\* the filtered data, whatever the four selectors hold (the same neighborhood
\* in several of them included): neither the price-comparison table nor the
\* affordability list has two entries for the same neighborhood.
C11_OneStatPerNeighborhood ==
  cmp_out.shown =>
    /\ \A i, j \in 1..Len(cmp_out.price_comparison) :
         cmp_out.price_comparison[i].neighborhood = cmp_out.price_comparison[j].neighborhood
           => i = j
    /\ \A i, j \in 1..Len(cmp_out.affordability_data) :
         cmp_out.affordability_data[i].neighborhood = cmp_out.affordability_data[j].neighborhood
           => i = j
    /\ \A nb \in Selected :
         Matching(nb) # {} =>
           \E i \in 1..Len(cmp_out.price_comparison) :
             cmp_out.price_comparison[i].neighborhood = nb

PriceRows == IF cmp_out.shown THEN Range(cmp_out.price_comparison) ELSE {}

\* the rows of the group of nb priced below / above the value m
Below(nb, m) == { i \in Matching(nb) : RLt(I(data[i].price_yearly_aed), m) }
Above(nb, m) == { i \in Matching(nb) : RLt(m, I(data[i].price_yearly_aed)) }

\* m is the median of the group of nb: either it is a price of the group
\* with fewer than half of the rows below it and fewer than half above it,
\* or exactly half of the rows lie on each side and it is the midpoint of
\* the two prices next to it
IsMedian(nb, m) ==
  \/ /\ 2 * Cardinality(Below(nb, m)) < Cardinality(Matching(nb))
     /\ 2 * Cardinality(Above(nb, m)) < Cardinality(Matching(nb))
     /\ \E i \in Matching(nb) : m = I(data[i].price_yearly_aed)
  \/ /\ 2 * Cardinality(Below(nb, m)) = Cardinality(Matching(nb))
     /\ 2 * Cardinality(Above(nb, m)) = Cardinality(Matching(nb))
     /\ \E i \in Below(nb, m), j \in Above(nb, m) :
          /\ \A k \in Below(nb, m) : data[k].price_yearly_aed <= data[i].price_yearly_aed
          /\ \A k \in Above(nb, m) : data[k].price_yearly_aed >= data[j].price_yearly_aed
          /\ 2 * m[1] = (data[i].price_yearly_aed + data[j].price_yearly_aed) * m[2]

\* the example of the specification: three listings of one neighborhood
MarinaRows ==
  << [neighborhood |-> "Marina", property_type |-> "Apartment", bedrooms |-> 1,
      price_yearly_aed |-> 60000],
     [neighborhood |-> "Marina", property_type |-> "Apartment", bedrooms |-> 1,
      price_yearly_aed |-> 80000],
     [neighborhood |-> "Marina", property_type |-> "Apartment", bedrooms |-> 1,
      price_yearly_aed |-> 70000] >>

\* C12: every row of the price comparison holds the mean, median, minimum,
\* maximum and count of the yearly prices of exactly the filtered rows of its
\* neighborhood; a group priced {60000, 70000, 80000} yields 70000, 70000,
\* 60000, 80000 and 3, and with a budget of 65000 one third within budget.
C12_GroupAggregates ==
  /\ \A s \in PriceRows :
       /\ s.neighborhood \in Selected
       /\ Matching(s.neighborhood) # {}
       /\ s.price_yearly_aed_count = Cardinality(Matching(s.neighborhood))
       /\ s.price_yearly_aed_mean[1] * Cardinality(Matching(s.neighborhood))
            = SumOver(Matching(s.neighborhood)) * s.price_yearly_aed_mean[2]
       /\ \E i \in Matching(s.neighborhood) : data[i].price_yearly_aed = s.price_yearly_aed_min
       /\ \E i \in Matching(s.neighborhood) : data[i].price_yearly_aed = s.price_yearly_aed_max
       /\ \A i \in Matching(s.neighborhood) :
            /\ s.price_yearly_aed_min <= data[i].price_yearly_aed
            /\ data[i].price_yearly_aed <= s.price_yearly_aed_max
       /\ IsMedian(s.neighborhood, s.price_yearly_aed_median)
  /\ PriceStats("Marina", MarinaRows)
       = [neighborhood |-> "Marina",
          price_yearly_aed_mean |-> <<70000, 1>>,
          price_yearly_aed_median |-> <<70000, 1>>,
          price_yearly_aed_min |-> 60000,
          price_yearly_aed_max |-> 80000,
          price_yearly_aed_count |-> 3]
  /\ WithinBudget(MarinaRows, I(65000)) = <<100, 3>>

\* a group of three different prices, and one of two (the median a midpoint)
C12_Witness ==
  /\ \E s \in PriceRows :
       /\ s.price_yearly_aed_count = 3
       /\ RLt(I(s.price_yearly_aed_min), s.price_yearly_aed_median)
       /\ RLt(s.price_yearly_aed_median, I(s.price_yearly_aed_max))
       /\ s.price_yearly_aed_mean # s.price_yearly_aed_median
  /\ cmp_in.bedrooms = "All"

\* C13: every row of the price comparison has min <= median <= max and a
\* count of at least 1, for every dataset and filter setting.
C13_MinMedianMax ==
  \A s \in PriceRows :
    /\ RLe(I(s.price_yearly_aed_min), s.price_yearly_aed_median)
    /\ RLe(s.price_yearly_aed_median, I(s.price_yearly_aed_max))
    /\ s.price_yearly_aed_count >= 1

\* a group of two prices under a filter, and a group of one beside it
C13_Witness ==
  /\ \E s \in PriceRows :
       /\ s.price_yearly_aed_count = 2
       /\ RLt(I(s.price_yearly_aed_min), s.price_yearly_aed_median)
       /\ RLt(s.price_yearly_aed_median, I(s.price_yearly_aed_max))
  /\ \E s \in PriceRows :
       /\ s.price_yearly_aed_count = 1
       /\ s.price_yearly_aed_min = s.price_yearly_aed_max

-----------------------------------------------------------------------------
(* Properties of the filters of the three pages                            *)

\* rows is what is left of df when exactly its rows in kept are kept, each
\* once and in the order of df
IsFiltered(rows, df, kept) ==
  /\ Range(rows) = kept
  /\ Len(rows) = Cardinality(kept)
  /\ \A i, j \in 1..Len(rows) :
       i < j => (CHOOSE k \in 1..Len(df) : df[k] = rows[i])
                  < (CHOOSE k \in 1..Len(df) : df[k] = rows[j])

\* the number of bedrooms an option of a bedrooms selector names
BedroomCount(option) ==
  CASE option = "Studio" -> 0
    [] option \in {"1", "1 BR"} -> 1
    [] option \in {"2", "2 BR"} -> 2
    [] option \in {"3", "3+ BR"} -> 3
    [] option = "4+" -> 4

TypeSelected(row, selected_property_type) ==
  selected_property_type = "All" \/ row.property_type = selected_property_type

\* the bedrooms predicate of the three selectors: a threshold for the options
\* ending in "+" ("3+ BR" on two pages, "4+" on the map), the count otherwise
BedroomsSelected(row, option) ==
  \/ option = "All"
  \/ option \in {"3+ BR", "4+"} /\ row.bedrooms >= BedroomCount(option)
  \/ option \notin {"All", "3+ BR", "4+"} /\ row.bedrooms = BedroomCount(option)

\* C14 as stated: on each page the filtered rows are exactly the rows of the
\* dataset of the selected property type, with the selected number of bedrooms
\* (at least 3 for "3+"), a yearly price within the selected range, both bounds
\* included, and the selected area; a selector on "All" removes nothing.
C14_AsStated ==
  LET BedroomsAsStated(row, option) ==
        \/ option = "All"
        \/ option = "3+ BR" /\ row.bedrooms >= 3
        \/ option # "All" /\ row.bedrooms = BedroomCount(option)
  IN
  /\ cmp_out.shown =>
       IsFiltered(cmp_out.filtered_data, data,
                  { row \in Range(data) :
                      /\ TypeSelected(row, cmp_in.property_type)
                      /\ BedroomsAsStated(row, cmp_in.bedrooms) })
  /\ map_out.shown =>
       IsFiltered(map_out.filtered_data, data,
                  { row \in Range(data) :
                      /\ TypeSelected(row, map_in.property_type)
                      /\ BedroomsAsStated(row, map_in.bedrooms)
                      /\ map_in.price_range[1] <= row.price_yearly_aed
                      /\ row.price_yearly_aed <= map_in.price_range[2] })
  /\ trend_out.shown =>
       IsFiltered(trend_out.filtered_data, data,
                  { row \in Range(data) :
                      /\ TypeSelected(row, trend_in.property_type)
                      /\ BedroomsAsStated(row, trend_in.bedrooms)
                      /\ (trend_in.area = "All" \/ row.area = trend_in.area) })

\* C14, amended: the same with the bedrooms predicate the pages have: the
\* map's selector has no "3+" option; its "3" keeps the rows of exactly 3
\* bedrooms and its "4+" the rows of at least 4.  Only the map has a price
\* range, and only the trends page an area.
C14_FilteredRows ==
  /\ cmp_out.shown =>
       IsFiltered(cmp_out.filtered_data, data,
                  { row \in Range(data) :
                      /\ TypeSelected(row, cmp_in.property_type)
                      /\ BedroomsSelected(row, cmp_in.bedrooms) })
  /\ map_out.shown =>
       IsFiltered(map_out.filtered_data, data,
                  { row \in Range(data) :
                      /\ TypeSelected(row, map_in.property_type)
                      /\ BedroomsSelected(row, map_in.bedrooms)
                      /\ map_in.price_range[1] <= row.price_yearly_aed
                      /\ row.price_yearly_aed <= map_in.price_range[2] })
  /\ trend_out.shown =>
       IsFiltered(trend_out.filtered_data, data,
                  { row \in Range(data) :
                      /\ TypeSelected(row, trend_in.property_type)
                      /\ BedroomsSelected(row, trend_in.bedrooms)
                      /\ (trend_in.area = "All" \/ row.area = trend_in.area) })

\* the map with "4+" selected keeps a row of 5 bedrooms whose price is the upper
\* end of the range, and drops other rows
C14_Witness ==
  /\ map_out.shown
  /\ map_in.bedrooms = "4+"
  /\ \E i \in 1..Len(map_out.filtered_data) :
       /\ map_out.filtered_data[i].bedrooms = 5
       /\ map_out.filtered_data[i].price_yearly_aed = map_in.price_range[2]
  /\ Len(map_out.filtered_data) < Len(data)

-----------------------------------------------------------------------------
(* Properties of the map's ranking                                         *)

\* the place of a neighborhood in the lexicographic order of the names
NameRank(neighborhood) ==
  CHOOSE k \in 1..Len(NeighborhoodOrder) : NeighborhoodOrder[k] = neighborhood

\* C15: the "most affordable neighborhoods" ranking is ascending in the average
\* yearly price, and two neighborhoods of equal average price appear in the
\* lexicographic order of their names, so that the rows fix the ranking.
C15_RankingOrder ==
  map_out.shown =>
    \A i, j \in 1..Len(map_out.affordable_neighborhoods) :
      i < j =>
        \/ RLt(map_out.affordable_neighborhoods[i].avg_price,
               map_out.affordable_neighborhoods[j].avg_price)
        \/ /\ map_out.affordable_neighborhoods[i].avg_price
                = map_out.affordable_neighborhoods[j].avg_price
           /\ NameRank(map_out.affordable_neighborhoods[i].neighborhood)
                < NameRank(map_out.affordable_neighborhoods[j].neighborhood)

-----------------------------------------------------------------------------
(* Properties of the rent and buy projection                               *)

\* (1 + rate) ** i to Scale, by i successive multiplications
Compound[rate \in Nat \X Nat, i \in Nat] ==
  IF i = 0 THEN Scale
  ELSE MulDivS[Compound[rate, i - 1], rate[1] + rate[2], rate[2]]

\* amount * (1 + (1 + rate) + ... + (1 + rate) ** (i - 1)), the sum of the
\* geometric series in closed form: amount * ((1 + rate) ** i - 1) / rate
GeometricSum(amount, rate, i) ==
  MulDiv(amount, (Compound[rate, i] - Scale) * rate[2], Scale * rate[1])

\* C16: the cumulative rent of year i = 1..10 is the sum over the years up to i
\* of affordable_yearly_rent * 1.05 ** (year - 1), and the series never
\* decreases from a year to the next.
C16_CumulativeRent ==
  calc_out.shown =>
    /\ DOMAIN calc_out.cumulative_rent = 1..10
    /\ rent_growth = Rat(105 - 100, 100)
    /\ calc_out.cumulative_rent[1] = Fils(calc_out.affordable_yearly_rent)
    /\ \A year \in ProjectionYears :
         /\ Close(calc_out.cumulative_rent[year],
                  GeometricSum(Fils(calc_out.affordable_yearly_rent), rent_growth, year))
         /\ year > 1 =>
              /\ calc_out.cumulative_rent[year] >= calc_out.cumulative_rent[year - 1]
              /\ Close(calc_out.cumulative_rent[year] - calc_out.cumulative_rent[year - 1],
                       MulDiv(Fils(calc_out.affordable_yearly_rent),
                              Compound[rent_growth, year - 1], Scale))

C16_Witness ==
  /\ calc_out.shown
  /\ calc_in.additional_income > 0
  /\ calc_out.cumulative_rent[1] > 0
  /\ calc_out.cumulative_rent[projection_years] > 12 * calc_out.cumulative_rent[1]

StrictlyIncreasing(series) ==
  \A year \in 2..Len(series) : series[year] > series[year - 1]

Constant(series) ==
  \A year \in 2..Len(series) : series[year] = series[year - 1]

\* C17 as stated: for every form, a yearly income of 0 included, the cumulative
\* rent grows strictly from each year to the next when the growth is positive,
\* and is constant when the growth is 0.
C17_AsStated ==
  calc_out.shown =>
    /\ RLt(I(0), rent_growth) => StrictlyIncreasing(calc_out.cumulative_rent)
    /\ rent_growth = I(0) => Constant(calc_out.cumulative_rent)

\* C17, amended: the growth is the fixed 5 %; the cumulative rent grows strictly
\* from each year to the next exactly when affordable_yearly_rent is positive,
\* and is 0 in every year when it is 0 (no yearly and no additional income).
\* Were the growth 0, the cumulative rent of year i would be i times the yearly
\* rent: growing still, not constant.
C17_IncreasingIffRent ==
  calc_out.shown =>
    /\ RLt(I(0), rent_growth)
    /\ RLt(I(0), calc_out.affordable_yearly_rent) =>
         StrictlyIncreasing(calc_out.cumulative_rent)
    /\ calc_out.affordable_yearly_rent = I(0) =>
         \A year \in ProjectionYears : calc_out.cumulative_rent[year] = 0
    /\ calc_out.affordable_yearly_rent = I(0)
         <=> (calc_in.yearly_income = 0 /\ calc_in.additional_income = 0)
    /\ \A year \in ProjectionYears :
         CumSum(Growing(Fils(calc_out.affordable_yearly_rent), GrowthPowers(I(0))))[year]
           = year * Fils(calc_out.affordable_yearly_rent)

\* a form with a yearly income of 0 and an additional income
C17_Witness ==
  /\ calc_out.shown
  /\ calc_in.yearly_income = 0
  /\ calc_in.additional_income > 0
  /\ StrictlyIncreasing(calc_out.cumulative_rent)

\* C18: the net cost of buying of year i is i times the yearly mortgage
\* (monthly_mortgage * 12) plus the down payment, less the property value
\* max_purchase_price * 1.03 ** (i - 1), plus max_purchase_price; in year 1 it
\* is the yearly mortgage plus the down payment.
C18_NetBuyingCost ==
  calc_out.shown =>
    /\ appreciation = Rat(103 - 100, 100)
    /\ calc_out.net_buying_cost[1]
         = calc_out.monthly_mortgage * 12 + calc_in.down_payment * 100
    /\ \A year \in ProjectionYears :
         Close(calc_out.net_buying_cost[year],
               year * (calc_out.monthly_mortgage * 12) + calc_in.down_payment * 100
                 - SMulDiv(calc_out.max_purchase_price,
                           Compound[appreciation, year - 1], Scale)
                 + calc_out.max_purchase_price)

C18_Witness ==
  /\ calc_out.shown
  /\ calc_in.down_payment > 0
  /\ calc_out.max_mortgage > 0
  /\ calc_out.net_buying_cost[projection_years] > calc_out.net_buying_cost[1]
  /\ calc_out.property_values[projection_years] > calc_out.property_values[1]

-----------------------------------------------------------------------------
(* Properties of the divisions                                             *)

\* the denominators of the four ratios are not 0 where the ratios are computed:
\* affordable_yearly_rent (comparison_tool.py line 185), max_avg_price
\* (map_visualization.py line 87), the average of the year before the last
\* (trend_analysis.py line 103), and (1 + r) ** n - 1 or n (line 226)
DenominatorsNonZero ==
  /\ cmp_out.shown => cmp_out.affordable_yearly_rent # I(0)
  /\ map_out.shown =>
       \A k \in 1..Len(map_out.markers) : map_out.markers[k].max_avg_price # I(0)
  /\ (trend_out.shown /\ Len(trend_out.yearly_avg) >= 2) =>
       trend_out.yearly_avg[Len(trend_out.yearly_avg) - 1].price_yearly_aed # 0
  /\ calc_out.shown =>
       IF RLt(I(0), calc_out.r) THEN PosPow(calc_out.r, calc_out.n) # Scale
       ELSE calc_out.n # 0

\* C19: no ratio that a page computes lets a division by zero through: no
\* denominator is 0 where a ratio is taken, and no run raises or shows NaN
\* for an average taken over no rows.
C19_NoDivisionFault ==
  /\ DenominatorsNonZero
  /\ trend_out.shown => trend_out.raised = "None"

-----------------------------------------------------------------------------
(* Properties of the calculator's input                                    *)

\* a form is valid: no negative amount, a rent share between 0 and 100 %, a
\* rate that is not negative and a term of at least a year
ValidForm(in) ==
  /\ in.yearly_income >= 0
  /\ in.additional_income >= 0
  /\ in.down_payment >= 0
  /\ in.debt_payments >= 0
  /\ in.other_expenses >= 0
  /\ in.rent_income_ratio >= 0
  /\ in.rent_income_ratio <= 100
  /\ in.mortgage_interest >= 0
  /\ in.mortgage_term > 0

\* C20: every calculation runs on a valid form: the widgets hand the script no
\* value outside their ranges, whatever the user gives them, so that no result
\* is computed from an invalid value.
C20_ValidInput ==
  /\ calc_out.shown => ValidForm(calc_in)
  /\ (page = "Affordability Calculator" /\ ~calc_out.shown) => calc_in = CalcDefaults
  /\ \A f \in DOMAIN CalcAttempts :
       /\ WidgetValue(f, CalcAttempts[f]) >= WidgetRanges[f][1]
       /\ WidgetValue(f, CalcAlternatives[f]) = CalcAlternatives[f]

\* a calculation on the least values the widgets accept
C20_Witness ==
  /\ calc_out.shown
  /\ calc_in.yearly_income = 0
  /\ calc_in.mortgage_term = 5
  /\ calc_out.n = 60

-----------------------------------------------------------------------------
(* Properties of the projection's shape                                    *)

\* C26: the cumulative rent and the net buying cost have exactly 10 entries
\* each, one for each of the years 1, 2, ..., 10 in ascending order (as have
\* the series they are computed from).
C26_TenYears ==
  calc_out.shown =>
    /\ ProjectionYears = 1..10
    /\ \A series \in {calc_out.cumulative_rent, calc_out.net_buying_cost,
                       calc_out.cumulative_mortgage, calc_out.property_values} :
         /\ DOMAIN series = ProjectionYears
         /\ Len(series) = 10

C26_Witness ==
  /\ calc_out.shown
  /\ Len(calc_out.cumulative_rent) = 10
  /\ Len(calc_out.net_buying_cost) = 10
  /\ calc_out.cumulative_rent[10] > calc_out.cumulative_rent[9]
  /\ calc_out.net_buying_cost[10] # calc_out.net_buying_cost[9]
  /\ calc_out.net_buying_cost[1] # calc_out.net_buying_cost[2]

-----------------------------------------------------------------------------
(* Properties of the calculator's show_results flag                        *)

\* what the calculator page displays in a state: nothing before show_results
\* is set, and afterwards the results of the form's current values
ResultsFollowFlag ==
  /\ calc_out.shown => "show_results" \in session_state
  /\ page = "Affordability Calculator" =>
       IF "show_results" \in session_state
         THEN calc_out = Results(calc_in)
         ELSE calc_out = NoResults /\ calc_in = CalcDefaults

\* show_results is set only by a run of the calculator page in which the form
\* is submitted, and is never cleared
FlagSetBySubmission ==
  /\ "show_results" \in session_state => "show_results" \in session_state'
  /\ ("show_results" \notin session_state /\ "show_results" \in session_state') =>
       /\ page = "Affordability Calculator"
       /\ page' = "Affordability Calculator"
       /\ calc_in' \in CalcInputs
       /\ calc_out' = Results(calc_in')

\* C27: the calculator shows no results before the first submission of the
\* form; from that submission on show_results stays set, and every render of
\* the calculator page shows the results of the values the form then has.
C27_ResultsAfterSubmission == []ResultsFollowFlag /\ [][FlagSetBySubmission]_vars

\* the page is entered again after a submission and two other pages: the
\* results are shown at once, for the form's defaults
C27_Witness ==
  /\ page = "Affordability Calculator"
  /\ "show_results" \in session_state
  /\ calc_in = CalcDefaults
  /\ calc_out.shown
  /\ calc_out.max_purchase_price > 0

-----------------------------------------------------------------------------
(* Properties of the affordability status                                  *)

\* C29: in every entry of the affordability index the status is "Affordable"
\* exactly when affordability_ratio <= 1, and exactly when the score is 100; an
\* "Unaffordable" neighborhood has a score below 100.
C29_StatusRatioScore ==
  cmp_out.shown =>
    \A k \in 1..Len(cmp_out.affordability_data) :
      LET entry == cmp_out.affordability_data[k]
      IN /\ entry.affordability_status \in {"Affordable", "Unaffordable"}
         /\ entry.affordability_status = "Affordable"
              <=> RLe(entry.affordability_ratio, I(1))
         /\ entry.affordability_status = "Affordable"
              <=> entry.affordability_score = 100
         /\ entry.affordability_status = "Unaffordable"
              => entry.affordability_score < 100

\* one neighborhood at a ratio of exactly 1 beside one above 1 with a score
\* between 0 and 100
C29_Witness ==
  /\ cmp_out.shown
  /\ \E k \in 1..Len(cmp_out.affordability_data) :
       /\ cmp_out.affordability_data[k].affordability_ratio = I(1)
       /\ cmp_out.affordability_data[k].affordability_status = "Affordable"
  /\ \E k \in 1..Len(cmp_out.affordability_data) :
       /\ cmp_out.affordability_data[k].affordability_status = "Unaffordable"
       /\ cmp_out.affordability_data[k].affordability_score > 0
       /\ cmp_out.affordability_data[k].affordability_score < 100

-----------------------------------------------------------------------------
(* Properties of the bedrooms selectors                                    *)

\* the numbers of bedrooms the generator gives a listing (data_loader.py lines
\* 93-100)
BedroomCounts == 0..6

\* the options of a selector other than "All"
ProperOptions(options) == Range(options) \ {"All"}

\* C30: on each page every listing is kept by exactly one of the options other
\* than "All" (Studio, 1, 2, 3, 4+ on the map; Studio, 1 BR, 2 BR, 3+ BR on the
\* comparison and trends pages), and the comparison and trends pages keep the
\* same rows for the same option.
C30_BedroomOptionsPartition ==
  /\ \A bedrooms \in BedroomCounts \cup { data[i].bedrooms : i \in 1..Len(data) } :
       /\ Cardinality({ option \in ProperOptions(MapBedroomOptions) :
                          MapBedroomsMatch([bedrooms |-> bedrooms], option) }) = 1
       /\ Cardinality({ option \in ProperOptions(BedroomOptions) :
                          BedroomsMatch([bedrooms |-> bedrooms], option) }) = 1
  /\ \A i \in 1..Len(data) :
       /\ Cardinality({ option \in ProperOptions(MapBedroomOptions) :
                          data[i] \in Range(MapFilteredData(data, "All", option,
                                                            <<0, MaxPriceOf(data)>>)) }) = 1
       /\ Cardinality({ option \in ProperOptions(BedroomOptions) :
                          data[i] \in Range(FilteredData(data, "All", option)) }) = 1
  /\ \A option \in Range(BedroomOptions) :
       FilteredData(data, "All", option) = TrendFilteredData(data, "All", option, "All")
  /\ (cmp_out.shown /\ cmp_in.bedrooms # "All") =>
       \A i \in 1..Len(cmp_out.filtered_data) :
         \A option \in ProperOptions(BedroomOptions) \ {cmp_in.bedrooms} :
           ~BedroomsMatch(cmp_out.filtered_data[i], option)
  /\ (trend_out.shown /\ trend_in.bedrooms # "All") =>
       \A i \in 1..Len(trend_out.filtered_data) :
         \A option \in ProperOptions(BedroomOptions) \ {trend_in.bedrooms} :
           ~BedroomsMatch(trend_out.filtered_data[i], option)
  /\ (map_out.shown /\ map_in.bedrooms # "All") =>
       \A i \in 1..Len(map_out.filtered_data) :
         \A option \in ProperOptions(MapBedroomOptions) \ {map_in.bedrooms} :
           ~MapBedroomsMatch(map_out.filtered_data[i], option)

\* the trends page with "3+ BR" keeps a listing of 3 bedrooms and one of 5
C30_Witness ==
  /\ trend_out.shown
  /\ trend_in.bedrooms = "3+ BR"
  /\ \E i, j \in 1..Len(trend_out.filtered_data) :
       /\ trend_out.filtered_data[i].bedrooms = 3
       /\ trend_out.filtered_data[j].bedrooms = 5
  /\ Len(trend_out.filtered_data) < Len(data)

-----------------------------------------------------------------------------
(* Properties of the calculator as a function of the form                  *)

\* C23: the results shown are a function of the form's values alone: whether
\* the form was submitted in this run, and whether results were shown in an
\* earlier one, a run that shows results for the same values shows the same
\* affordable rent, max mortgage, max purchase price and projection series.
C23_ResultsDependOnFormOnly ==
  calc_out.shown =>
    /\ \A submitted \in BOOLEAN, ss \in SUBSET {"show_results"} :
         ShowsResults(submitted, ss) =>
           ShowAffordabilityCalculator(submitted, ss, calc_in) = calc_out
    /\ calc_out.affordable_rent
         = AffordableRent(MonthlyIncome(calc_in.yearly_income, calc_in.additional_income),
                          calc_in.rent_income_ratio)
    /\ calc_out.max_purchase_price = calc_out.max_mortgage + calc_in.down_payment * 100

\* results for a form off its defaults, in a session that has shown results
C23_Witness ==
  /\ calc_out.shown
  /\ "show_results" \in session_state
  /\ calc_in.down_payment # down_payment_default
  /\ calc_in.mortgage_term # mortgage_term_default
  /\ calc_out.max_mortgage > 0

\* the Listing data model, and the generated listings outside it
ListingModel(l) ==
  /\ l.property_type \in {"Apartment", "Villa", "Townhouse", "Penthouse", "Studio"}
  /\ l.bedrooms >= 0
  /\ l.bathrooms >= 1
  /\ l.size_sqft > 0
  /\ l.price_yearly_aed > 0
  /\ l.price_monthly_aed > 0
  /\ l.price_monthly_aed % 100 = 0
  /\ Abs(12 * l.price_monthly_aed - l.price_yearly_aed) <= 12 * 50

GeneratedOutsideModel == { l \in GeneratedListings : ~ListingModel(l) }

\* C24: every generated listing satisfies the Listing data model: its
\* property type is one of the five, bedrooms >= 0, bathrooms >= 1, size,
\* yearly and monthly price are positive and the monthly price is the yearly
\* price over 12 to the nearest 100; the dataset has as many rows as were
\* asked for (NumRows here, num_records = 1000 in the code), with the ids
\* 1, 2, ... in row order
C24_ListingModel ==
  /\ Len(data) = NumRows
  /\ \A i \in 1..Len(data) : data[i].id = i /\ ListingModel(data[i])
  /\ GeneratedOutsideModel = {}

\* a dataset on display with a studio, whose bathroom draw was below 1
C24_Witness ==
  /\ trend_out.shown
  /\ \E i \in 1..Len(data) :
       /\ data[i].property_type = "Studio" /\ data[i].bedrooms = 0
       /\ data[i].bathrooms = 1
       /\ data[i].price_monthly_aed = 5000

\* C22: a page view leaves the loaded dataset as it was, whatever the
\* filters: no row is changed, added or removed and no column is added; the
\* derived columns year_month, price_per_sqft and year_quarter are on the
\* trend page's own frame and year_month and year_quarter never on the dataset
C22_DatasetUnchanged ==
  /\ [][data' = data]_vars
  /\ [](/\ data \in DataSets
        /\ \A i \in 1..Len(data) :
             {"year_month", "year_quarter"} \cap DOMAIN data[i] = {}
        /\ trend_out.shown =>
             \A i \in 1..Len(trend_out.frame) :
               /\ "year_month" \in DOMAIN trend_out.frame[i]
               /\ trend_out.raised = "None" =>
                    {"price_per_sqft", "year_quarter"} \subseteq DOMAIN trend_out.frame[i])

\* the trend page without any filter, all three columns assigned
C22_Witness ==
  /\ trend_out.shown
  /\ trend_in = TrendDefaults
  /\ Len(trend_out.frame) = Len(data)
  /\ \A i \in 1..Len(data) :
       /\ trend_out.frame[i].year_quarter[1] = data[i].date_posted.year
       /\ DOMAIN trend_out.frame[i] # DOMAIN data[i]

\* C25: between two expirations of the cache every run of the script receives
\* the same dataset, and a run after an expiry receives a dataset that was
\* generated as a whole by that call: every row belongs to the new batch,
\* none is kept from the dataset before
C25_StableSnapshot ==
  [][IF ~cache.expired
       THEN /\ cache'.rows = cache.rows
            /\ cache'.batch = cache.batch
            /\ cache'.generation = cache.generation
            /\ data' = data
       ELSE /\ cache'.generation = cache.generation + 1
            /\ ~cache'.expired
            /\ \A i \in 1..Len(cache'.rows) : cache'.batch[i] = cache'.generation
            /\ cache'.result = "DataFrame" =>
                 /\ cache'.rows \in DataSets
                 /\ data' = cache'.rows]_vars

\* a page shows the dataset of the second generation
C25_Witness ==
  /\ cache.generation = 2
  /\ cache.result = "DataFrame"
  /\ cache.batch = [i \in 1..NumRows |-> 2]
  /\ page = "Rental Trends"
  /\ trend_out.shown
  /\ data = cache.rows

\* C28: no page is rendered without a dataset: when the loader returns None
\* or an empty dataset the run ends before the navigation and renders no
\* page; the loader returns a DataFrame or None and raises nothing; a run
\* that renders a page has the cached dataset, which has rows
C28_NoPageWithoutData ==
  /\ cache.result \in {"DataFrame", "None"}
  /\ (cache.result # "DataFrame" \/ Len(cache.rows) = 0) =>
       /\ page = NoPage
       /\ ~calc_out.shown /\ ~cmp_out.shown /\ ~map_out.shown /\ ~trend_out.shown
  /\ page # NoPage =>
       /\ cache.result = "DataFrame"
       /\ data = cache.rows
       /\ Len(data) > 0

\* a reload has failed after pages were shown
C28_Witness ==
  /\ cache.result = "None"
  /\ cache.generation = 2
  /\ page = NoPage
  /\ "show_results" \in session_state

\* C21: a failure to load the dataset does not keep the affordability
\* calculator from running: every submission of its form returns results
C21_CalculatorSurvivesLoadFailure ==
  [][(\E in \in LoadInputs : SubmitForm(in)) => calc_out'.shown]_vars

====
